---------------------------- MODULE Spec2Model ----------------------------
(***************************************************************************)
(* A model of the feature flag engine of src/src/feature_flags.py:         *)
(* FlagConfig, FeatureFlagManager (defaults, evaluation, audit log, live   *)
(* update) and the hash that buckets a user for a percentage rollout.      *)
(***************************************************************************)
EXTENDS Integers, Sequences, FiniteSets, TLC

(***************************************************************************)
(* Python's None.                                                          *)
(***************************************************************************)
None == "None"

(***************************************************************************)
(* hashlib.md5 (RFC 1321).  TLC's integers are 32-bit signed, so a 32-bit  *)
(* word is kept as a pair <<high 16 bits, low 16 bits>>.                   *)
(***************************************************************************)
Pow2(n) == 2 ^ n

\* a & b for a, b in 0..15.
And4(a, b) ==
    (a % 2) * (b % 2)
    + 2 * (((a \div 2) % 2) * ((b \div 2) % 2))
    + 4 * (((a \div 4) % 2) * ((b \div 4) % 2))
    + 8 * ((a \div 8) * (b \div 8))

\* a & b, a | b, a ^ b for a, b in 0..2^n - 1, n a multiple of 4: four
\* bits at a time, and a | b = a + b - (a & b), a ^ b = a + b - 2 (a & b).
RECURSIVE And16(_, _, _)
And16(a, b, n) ==
    IF n = 0 THEN 0
    ELSE And4(a % 16, b % 16) + 16 * And16(a \div 16, b \div 16, n - 4)

Or16(a, b, n) == a + b - And16(a, b, n)

Xor16(a, b, n) == a + b - 2 * And16(a, b, n)

W32And(x, y) == <<And16(x[1], y[1], 16), And16(x[2], y[2], 16)>>
W32Or(x, y) == <<Or16(x[1], y[1], 16), Or16(x[2], y[2], 16)>>
W32Xor(x, y) == <<Xor16(x[1], y[1], 16), Xor16(x[2], y[2], 16)>>
W32Not(x) == <<65535 - x[1], 65535 - x[2]>>

\* Addition modulo 2^32.
W32Add(x, y) ==
    LET lo == x[2] + y[2]
        hi == x[1] + y[1] + (lo \div 65536)
    IN  <<hi % 65536, lo % 65536>>

\* Left rotation of a 32-bit word by s bits, 0 <= s < 32.
W32Rotl(x, s) ==
    LET y == IF s >= 16 THEN <<x[2], x[1]>> ELSE x
        r == IF s >= 16 THEN s - 16 ELSE s
    IN  <<((y[1] * Pow2(r)) % 65536) + (y[2] \div Pow2(16 - r)),
          ((y[2] * Pow2(r)) % 65536) + (y[1] \div Pow2(16 - r))>>

\* floor(2^32 * abs(sin(i + 1))), i = 0..63.
MD5_K ==
    <<
       <<55146, 42104>>, <<59591, 46934>>, <<9248, 28891>>, <<49597, 52974>>,
       <<62844, 4015>>, <<18311, 50730>>, <<43056, 17939>>, <<64838, 38145>>,
       <<27008, 39128>>, <<35652, 63407>>, <<65535, 23473>>, <<35164, 55230>>,
       <<27536, 4386>>, <<64920, 29075>>, <<42617, 17294>>, <<18868, 2081>>,
       <<63006, 9570>>, <<49216, 45888>>, <<9822, 23121>>, <<59830, 51114>>,
       <<54831, 4189>>, <<580, 5203>>, <<55457, 59009>>, <<59347, 64456>>,
       <<8673, 52710>>, <<49975, 2006>>, <<62677, 3463>>, <<17754, 5357>>,
       <<43491, 59653>>, <<64751, 41976>>, <<26479, 729>>, <<36138, 19594>>,
       <<65530, 14658>>, <<34673, 63105>>, <<28061, 24866>>, <<64997, 14348>>,
       <<42174, 59972>>, <<19422, 53161>>, <<63163, 19296>>, <<48831, 48240>>,
       <<10395, 32454>>, <<60065, 10234>>, <<54511, 12421>>, <<1160, 7429>>,
       <<55764, 53305>>, <<59099, 39397>>, <<8098, 31992>>, <<50348, 22117>>,
       <<62505, 8772>>, <<17194, 65431>>, <<43924, 9127>>, <<64659, 41017>>,
       <<25947, 22979>>, <<36620, 52370>>, <<65519, 62589>>, <<34180, 24017>>,
       <<28584, 32335>>, <<65068, 59104>>, <<41729, 17172>>, <<19976, 4513>>,
       <<63315, 32386>>, <<48442, 62005>>, <<10967, 53947>>, <<60294, 54161>>
    >>

\* The per-round rotation amounts.
MD5_S ==
    <<
       7, 12, 17, 22, 7, 12, 17, 22, 7, 12, 17, 22, 7, 12, 17, 22,
       5, 9, 14, 20, 5, 9, 14, 20, 5, 9, 14, 20, 5, 9, 14, 20,
       4, 11, 16, 23, 4, 11, 16, 23, 4, 11, 16, 23, 4, 11, 16, 23,
       6, 10, 15, 21, 6, 10, 15, 21, 6, 10, 15, 21, 6, 10, 15, 21
    >>

\* The initial chaining value A, B, C, D.
MD5_IV == <<<<26437, 8961>>, <<61389, 43913>>, <<39098, 56574>>, <<4146, 21622>>>>

Zeros(n) == [k \in 1..n |-> 0]

\* The message, 0x80, zeros up to 56 modulo 64, the bit length as 8 bytes,
\* little-endian.
MD5Pad(msg) ==
    LET n == Len(msg)
        z == (55 - n) % 64
        bits == 8 * n
    IN  msg \o <<128>> \o Zeros(z)
            \o <<bits % 256, (bits \div 256) % 256, (bits \div 65536) % 256,
                 (bits \div 16777216) % 256, 0, 0, 0, 0>>

\* Word g (0..15) of the 64-byte block that starts after byte `off`,
\* little-endian.
MD5Word(p, off, g) ==
    <<p[off + 4 * g + 3] + 256 * p[off + 4 * g + 4],
      p[off + 4 * g + 1] + 256 * p[off + 4 * g + 2]>>

\* One of the 64 steps on the state st = <<A, B, C, D>>.
MD5Step(st, p, off, i) ==
    LET A == st[1]
        B == st[2]
        C == st[3]
        D == st[4]
        F == IF i < 16 THEN W32Or(W32And(B, C), W32And(W32Not(B), D))
             ELSE IF i < 32 THEN W32Or(W32And(D, B), W32And(W32Not(D), C))
             ELSE IF i < 48 THEN W32Xor(B, W32Xor(C, D))
             ELSE W32Xor(C, W32Or(B, W32Not(D)))
        g == IF i < 16 THEN i
             ELSE IF i < 32 THEN (5 * i + 1) % 16
             ELSE IF i < 48 THEN (3 * i + 5) % 16
             ELSE (7 * i) % 16
        T == W32Add(W32Add(F, A), W32Add(MD5_K[i + 1], MD5Word(p, off, g)))
    IN  \* Len(F) and Len(T) are 2: asking for them makes TLC compute F,
        \* then T, then the sum, one after the other and not one inside the
        \* other.
        IF Len(F) # 2 \/ Len(T) # 2 THEN st
        ELSE <<D, W32Add(B, W32Rotl(T, MD5_S[i + 1])), B, C>>

\* Steps lo..hi-1 in their order, as the first half and then the second:
\* the evaluation nests 6 deep for the 64 steps and not 64 deep.
RECURSIVE MD5StepRange(_, _, _, _, _)
MD5StepRange(st, p, off, lo, hi) ==
    IF hi <= lo THEN st
    ELSE IF hi = lo + 1 THEN MD5Step(st, p, off, lo)
    ELSE LET mid == (lo + hi) \div 2
             half == MD5StepRange(st, p, off, lo, mid)
         IN  \* Len(half) is 4: asking for it makes TLC compute the first
             \* half before it starts on the second.
             IF Len(half) # 4 THEN half
             ELSE MD5StepRange(half, p, off, mid, hi)

\* Steps i..63.
MD5Steps(st, p, off, i) == MD5StepRange(st, p, off, i, 64)

\* The chaining value after the first k blocks of the padded message p.
RECURSIVE MD5Blocks(_, _)
MD5Blocks(p, k) ==
    IF k = 0 THEN MD5_IV
    ELSE LET h == MD5Blocks(p, k - 1)
             st == MD5Steps(h, p, 64 * (k - 1), 0)
         IN  <<W32Add(h[1], st[1]), W32Add(h[2], st[2]),
               W32Add(h[3], st[3]), W32Add(h[4], st[4])>>

\* The 16 bytes of the digest: A, B, C, D, each little-endian.
MD5Digest(msg) ==
    LET p == MD5Pad(msg)
        h == MD5Blocks(p, Len(p) \div 64)
    IN  [k \in 1..16 |->
            LET w == h[((k - 1) \div 4) + 1]
                j == (k - 1) % 4
            IN  IF j = 0 THEN w[2] % 256
                ELSE IF j = 1 THEN w[2] \div 256
                ELSE IF j = 2 THEN w[1] % 256
                ELSE w[1] \div 256]


(***************************************************************************)
(* str.encode(): the UTF-8 bytes of the names the model uses.              *)
(***************************************************************************)
encode(s) ==
    CASE s = "aggressive_capture" ->
            <<97, 103, 103, 114, 101, 115, 115, 105, 118, 101, 95, 99, 97,
              112, 116, 117, 114, 101>>
      [] s = "show_risks_upfront" ->
            <<115, 104, 111, 119, 95, 114, 105, 115, 107, 115, 95, 117, 112,
              102, 114, 111, 110, 116>>
      [] s = "nonexistent_flag" ->
            <<110, 111, 110, 101, 120, 105, 115, 116, 101, 110, 116, 95, 102,
              108, 97, 103>>
      [] s = "user_005" -> <<117, 115, 101, 114, 95, 48, 48, 53>>
      [] s = "vip_user_1" -> <<118, 105, 112, 95, 117, 115, 101, 114, 95, 49>>
      [] s = "" -> <<>>

\* int.from_bytes(b, byteorder='big') % 100.  The integer itself can exceed
\* TLC's range, so the remainder is taken along the way.
from_bytes_big_mod100(b) ==
    LET RECURSIVE go(_, _)
        go(acc, i) == IF i > Len(b) THEN acc
                      ELSE go((acc * 256 + b[i]) % 100, i + 1)
    IN  go(0, 1)

(***************************************************************************)
(* FeatureFlagManager._hash_user: md5 of "<flag_name>:<user_id>", the      *)
(* first 4 bytes as a big-endian integer, modulo 100.                      *)
(***************************************************************************)
\* A bucket salted by the instance, as Python's own hash() is by the process.
hash_user_salted(self, flag_name, user_id) ==
    LET combined == encode(flag_name) \o <<58>> \o encode(user_id)
        hash_bytes == MD5Digest(combined)
    IN  (from_bytes_big_mod100(SubSeq(hash_bytes, 1, 4)) + 37 * self) % 100

hash_user(self, flag_name, user_id) ==
    LET combined == encode(flag_name) \o <<58>> \o encode(user_id)
        hash_bytes == MD5Digest(combined)
    IN  from_bytes_big_mod100(SubSeq(hash_bytes, 1, 4))


(***************************************************************************)
(* Bounds and the inputs the model draws its calls from.                   *)
(***************************************************************************)
\* Stands for the 1000 of _log_evaluation: the audit log keeps this many
\* entries.
AuditCap == 2

\* How many entries may be recorded beyond the capacity of the log.
MaxOverflow == 2

MaxRecords == AuditCap + MaxOverflow

\* FeatureFlagManager instances.
Managers == {1, 2}

\* The flags _load_defaults defines that the model keeps (one that starts
\* disabled at 0%, one that starts enabled at 100%), and a name that is
\* no flag.
DefaultFlagNames == {"aggressive_capture", "show_risks_upfront"}
FlagNames == DefaultFlagNames \cup {"nonexistent_flag"}

\* user_id arguments: absent, empty, and two ids.
UserIds == {None, "", "user_005", "vip_user_1"}

\* update_flag keyword arguments: a record holds the arguments that are
\* supplied (not None).  Every single argument, out-of-range percentages
\* included, and the combinations demo_flags.py makes.  The percentages of
\* a partial rollout are next to the buckets of the two user ids for
\* "aggressive_capture", 29 and 65.
UpdateArgs ==
    {<<>>}
    \cup {[enabled |-> v] : v \in {TRUE, FALSE}}
    \cup {[rollout_percentage |-> v] : v \in {-20, 30, 65, 150}}
    \cup {[target_users |-> v] : v \in {<<>>, <<"vip_user_1", "">>}}
    \cup {[enabled |-> TRUE, rollout_percentage |-> 65],
          [enabled |-> TRUE, rollout_percentage |-> 0,
           target_users |-> <<"vip_user_1", "">>]}

\* The update_flag calls the model makes: any arguments on the first flag,
\* the kill switch on the second (demo_kill_switch), and a name that is no
\* flag.
UpdateCalls ==
    ({"aggressive_capture"} \X UpdateArgs)
    \cup ({"show_risks_upfront"} \X {[enabled |-> TRUE], [enabled |-> FALSE]})
    \cup ({"nonexistent_flag"} \X {[enabled |-> TRUE, rollout_percentage |-> 65]})

\* Outcomes of random.randint(0, 99) the model draws: the ends of the range
\* and the values next to each partial percentage.
RandomDraws == {0, 29, 30, 64, 65, 99}

(***************************************************************************)
(* FlagConfig: the dataclass and its __post_init__.  kw holds the keyword  *)
(* arguments that are supplied.                                            *)
(***************************************************************************)
FlagConfig(name, kw) ==
    [name |-> name,
     enabled |-> IF "enabled" \in DOMAIN kw THEN kw.enabled ELSE FALSE,
     rollout_percentage |->
        IF "rollout_percentage" \in DOMAIN kw THEN kw.rollout_percentage
        ELSE 0,
     \* None becomes [] in __post_init__.
     target_users |->
        IF "target_users" \in DOMAIN kw THEN kw.target_users ELSE <<>>,
     target_segments |->
        IF "target_segments" \in DOMAIN kw THEN kw.target_segments ELSE <<>>,
     variant |-> IF "variant" \in DOMAIN kw THEN kw.variant ELSE None,
     description |->
        IF "description" \in DOMAIN kw THEN kw.description ELSE ""]

\* FeatureFlagManager._load_defaults, for the flags of DefaultFlagNames.
load_defaults ==
    [n \in DefaultFlagNames |->
        IF n = "aggressive_capture"
        THEN FlagConfig("aggressive_capture",
                [enabled |-> FALSE, rollout_percentage |-> 0,
                 description |-> "Ask for contact info after first listing detail request (vs waiting for explicit interest)"])
        ELSE FlagConfig("show_risks_upfront",
                [enabled |-> TRUE, rollout_percentage |-> 100,
                 description |-> "Include risk analysis in listing details"])]

(***************************************************************************)
(* The state.                                                              *)
(***************************************************************************)
VARIABLES
    flags,      \* manager -> its self.flags: flag name -> FlagConfig
    audit_log,  \* manager -> its self.audit_log, a sequence of entries
    utcnow,     \* the clock: how many audit entries have been built
    last,       \* manager -> its last call that returned, with what it
                \* returned
    user_hashes,\* _hash_user of every argument the model uses, computed
                \* once: the function never changes
    decided,    \* history: manager -> the <<flag name, user_id, value>> of
                \* its is_enabled calls since the flag was last updated
    was_enabled,\* history: manager -> the <<flag name, user_id>> that got
                \* true, kept while the flag's percentage is only raised
    pc,         \* thread -> the line its call has reached
    frame,      \* thread -> the arguments and locals of its call
    recorded,   \* history: the timestamps of the entries appended by
                \* threads, in the order of the appends
    config_file,\* what is at config_path when the manager is constructed
    environ,    \* os.environ when the manager is constructed
    _flag_manager
                \* the module's global: the manager get_flag_manager made,
                \* NoManager before

vars == <<flags, audit_log, utcnow, last, user_hashes, decided, was_enabled,
          pc, frame, recorded, config_file, environ, _flag_manager>>

\* Python truthiness of a user_id: None and "" are false.
Truthy(user_id) == user_id # None /\ user_id # ""

\* x in lst.
In(x, lst) == \E i \in 1..Len(lst) : lst[i] = x

\* f"rollout_{rollout_percentage}%"
rollout_reason(rollout_percentage) ==
    "rollout_" \o ToString(rollout_percentage) \o "%"

\* _hash_user on every argument of S.
HashTable(S) == [k \in S |-> hash_user(k[1], k[2], k[3])]

HashArgs == Managers \X FlagNames \X (UserIds \ {None})


(***************************************************************************)
(* FeatureFlagManager.is_enabled.                                          *)
(***************************************************************************)
\* A kill switch that is looked at after the targeting: it does not stop a
\* flag that has target users.
kill_switch_after_targeting(flag) ==
    ~flag.enabled /\ Len(flag.target_users) = 0

\* "if not flag.enabled": the global kill switch.
kill_switch(flag) == ~flag.enabled

\* Targeting that is looked at after the 0% test.
is_targeted_unless_zero(flag, user_id) ==
    Truthy(user_id) /\ In(user_id, flag.target_users)
        /\ flag.rollout_percentage # 0

\* Targeting that does not ask who the user is.
is_targeted_anyone(flag, user_id) == Len(flag.target_users) > 0

\* "if user_id and user_id in flag.target_users".
is_targeted(flag, user_id) ==
    Truthy(user_id) /\ In(user_id, flag.target_users)

\* "if flag.rollout_percentage == 100" and "elif flag.rollout_percentage == 0".
rollout_all(flag) == flag.rollout_percentage = 100

\* The 0% test left out: 0% goes on to the hash or the draw.
rollout_none_unchecked(flag) == FALSE

rollout_none(flag) == flag.rollout_percentage = 0

\* A comparison that lets the bucket equal to the percentage in.
in_rollout_inclusive(user_hash, rollout_percentage) ==
    user_hash <= rollout_percentage

\* A rollout that moves a window of ten buckets up instead of widening it.
in_rollout_window(user_hash, rollout_percentage) ==
    user_hash < rollout_percentage /\ user_hash >= rollout_percentage - 10

\* "enabled = user_hash < flag.rollout_percentage".
in_rollout(user_hash, rollout_percentage) == user_hash < rollout_percentage

\* What one call does, with `draw` the outcome of random.randint(0, 99) in
\* case it is asked for:
\*   ret     the value returned
\*   audit   the (result, reason) pairs handed to _log_evaluation, in order
\*   hashed  whether _hash_user was called
\*   drew    whether random.randint was called
is_enabled(fl, hashes, self, flag_name, user_id, draw) ==
    LET Result(ret, audit, hashed, drew) ==
            [ret |-> ret, audit |-> audit, hashed |-> hashed, drew |-> drew]
    IN  IF flag_name \notin DOMAIN fl
        THEN Result(FALSE, <<>>, FALSE, FALSE)
        ELSE
        LET flag == fl[flag_name] IN
        IF kill_switch(flag)
        THEN Result(FALSE, <<>>, FALSE, FALSE)
        ELSE IF is_targeted(flag, user_id)
        THEN Result(TRUE,
                    <<[result |-> TRUE, reason |-> "targeted_user"]>>,
                    FALSE, FALSE)
        ELSE IF rollout_all(flag)
        THEN Result(TRUE, <<>>, FALSE, FALSE)
        ELSE IF rollout_none(flag)
        THEN Result(FALSE, <<>>, FALSE, FALSE)
        ELSE IF Truthy(user_id)
        THEN LET user_hash == hashes[<<self, flag_name, user_id>>]
                 enabled == in_rollout(user_hash, flag.rollout_percentage)
             IN  Result(enabled,
                        <<[result |-> enabled,
                           reason |-> rollout_reason(flag.rollout_percentage)]>>,
                        TRUE, FALSE)
        ELSE Result(draw < flag.rollout_percentage, <<>>, FALSE, TRUE)

(***************************************************************************)
(* FeatureFlagManager._log_evaluation: append, then keep the last AuditCap *)
(* entries.                                                                *)
(***************************************************************************)
audit_entry(timestamp, flag_name, user_id, result, reason) ==
    [timestamp |-> timestamp, flag |-> flag_name, user_id |-> user_id,
     result |-> result, reason |-> reason]

\* lst[:n]: a trim that keeps the oldest entries.
first_entries(lst, n) == SubSeq(lst, 1, n)

\* lst[-n:] for a list longer than n.
last_entries(lst, n) == SubSeq(lst, Len(lst) - n + 1, Len(lst))

log_evaluation(log, entry) ==
    LET appended == Append(log, entry)
    IN  IF Len(appended) > AuditCap THEN last_entries(appended, AuditCap)
        ELSE appended

(***************************************************************************)
(* FeatureFlagManager.update_flag.                                         *)
(***************************************************************************)
Max(a, b) == IF a >= b THEN a ELSE b
Min(a, b) == IF a <= b THEN a ELSE b

\* A clamp from above only.
clamp_above(rollout_percentage) == Min(100, rollout_percentage)

\* max(0, min(100, rollout_percentage))
clamp(rollout_percentage) == Max(0, Min(100, rollout_percentage))

\* An update that makes the flag anew from its arguments, found or not.
update_flag_creating(fl, flag_name, kw) ==
    [n \in DOMAIN fl \cup {flag_name} |->
        IF n # flag_name THEN fl[n]
        ELSE FlagConfig(n, kw)]

\* An update that takes an argument that is not supplied as "no target
\* users".
update_flag_resetting(fl, flag_name, kw) ==
    IF flag_name \notin DOMAIN fl THEN fl
    ELSE [fl EXCEPT ![flag_name] =
            [@ EXCEPT
                !.enabled =
                    IF "enabled" \in DOMAIN kw THEN kw.enabled ELSE @,
                !.rollout_percentage =
                    IF "rollout_percentage" \in DOMAIN kw
                    THEN clamp(kw.rollout_percentage) ELSE @,
                !.target_users =
                    IF "target_users" \in DOMAIN kw THEN kw.target_users
                    ELSE <<>>]]

update_flag(fl, flag_name, kw) ==
    IF flag_name \notin DOMAIN fl THEN fl
    ELSE [fl EXCEPT ![flag_name] =
            [@ EXCEPT
                !.enabled =
                    IF "enabled" \in DOMAIN kw THEN kw.enabled ELSE @,
                !.rollout_percentage =
                    IF "rollout_percentage" \in DOMAIN kw
                    THEN clamp(kw.rollout_percentage) ELSE @,
                !.target_users =
                    IF "target_users" \in DOMAIN kw THEN kw.target_users
                    ELSE @]]

(***************************************************************************)
(* Strings that the code takes apart: a str is the sequence of its code    *)
(* points (for the ASCII names of the flags, the bytes of encode).         *)
(***************************************************************************)
\* str.lower(): A-Z become a-z; the other characters of the model have no
\* lower case.
lower(s) ==
    [i \in 1..Len(s) |-> IF s[i] >= 65 /\ s[i] <= 90 THEN s[i] + 32 ELSE s[i]]

\* The ASCII whitespace: tab, newline, vertical tab, form feed, return,
\* space.
Whitespace == {9, 10, 11, 12, 13, 32}

\* str.strip().
RECURSIVE strip(_)
strip(s) ==
    IF Len(s) = 0 THEN s
    ELSE IF s[1] \in Whitespace THEN strip(Tail(s))
    ELSE IF s[Len(s)] \in Whitespace THEN strip(SubSeq(s, 1, Len(s) - 1))
    ELSE s

\* str.startswith(prefix).
startswith(s, prefix) ==
    Len(s) >= Len(prefix) /\ SubSeq(s, 1, Len(prefix)) = prefix

\* Characters that str.isdigit() accepts and int() does not: the
\* superscripts two, three and one.
SuperscriptDigits == {178, 179, 185}

\* str.isdigit(): not empty, every character a digit.  A superscript digit
\* is one.
isdigit(s) ==
    /\ Len(s) > 0
    /\ \A i \in 1..Len(s) :
            (s[i] >= 48 /\ s[i] <= 57) \/ s[i] \in SuperscriptDigits

\* Whether int(s) raises ValueError, for an s that isdigit() accepts.
int_raises(s) == \E i \in 1..Len(s) : s[i] \in SuperscriptDigits

\* A conversion that reads the first digit only.
int_first_digit(s) == s[1] - 48

\* int(s) for a string of decimal digits.
RECURSIVE int(_)
int(s) ==
    IF Len(s) = 0 THEN 0
    ELSE 10 * int(SubSeq(s, 1, Len(s) - 1)) + (s[Len(s)] - 48)

(***************************************************************************)
(* FeatureFlagManager._load_from_env.  env is os.environ: a sequence of    *)
(* <<key, value>>, in the order of os.environ.items().                     *)
(***************************************************************************)
EnvPrefix == <<70, 70, 95>>          \* "FF_"

\* The boolean test with "1" left to the percentage branch.
EnvTrueWords == {<<116, 114, 117, 101>>, <<111, 110>>}

EnvTrue  == {<<116, 114, 117, 101>>, <<49>>, <<111, 110>>}
                                     \* ("true", "1", "on")
EnvFalse == {<<102, 97, 108, 115, 101>>, <<48>>, <<111, 102, 102>>}
                                     \* ("false", "0", "off")

\* One variable of the loop, lines 190-211: the flags after it, or the
\* exception that int() raises.
load_env_variable(fl, key, raw) ==
    LET Loaded(f) == [flags |-> f, raised |-> None]
        flag_name == lower(SubSeq(key, 4, Len(key)))
        known == {n \in DOMAIN fl : encode(n) = flag_name}
        value == lower(strip(raw))
        Override(enabled, pct) ==
            [n \in DOMAIN fl |->
                IF n \in known
                THEN [fl[n] EXCEPT !.enabled = enabled,
                                   !.rollout_percentage = pct]
                ELSE fl[n]]
    IN  IF ~startswith(key, EnvPrefix) THEN Loaded(fl)
        ELSE IF known = {} THEN Loaded(fl)
        ELSE IF value \in EnvTrue THEN Loaded(Override(TRUE, 100))
        ELSE IF value \in EnvFalse THEN Loaded(Override(FALSE, 0))
        ELSE IF isdigit(value)
        THEN IF int_raises(value)
             THEN [flags |-> fl, raised |-> "ValueError"]
             ELSE IF 0 <= int(value) /\ int(value) <= 100
             THEN Loaded(Override(TRUE, int(value)))
             ELSE Loaded(fl)
        ELSE Loaded(fl)

\* The loop over the first n variables; an exception ends it.
RECURSIVE load_from_env(_, _, _)
load_from_env(fl, env, n) ==
    IF n = 0 THEN [flags |-> fl, raised |-> None]
    ELSE LET before == load_from_env(fl, env, n - 1)
         IN  IF before.raised # None THEN before
             ELSE load_env_variable(before.flags, env[n][1], env[n][2])

(***************************************************************************)
(* FeatureFlagManager._load_from_file.  What is at config_path is          *)
(*   [kind |-> "none"]        no path given, or nothing there              *)
(*   [kind |-> "unreadable"]  open() raises                                *)
(*   [kind |-> "malformed"]   json.load() raises                           *)
(*   [kind |-> "array"]       JSON, but no object: config.items() raises   *)
(*   [kind |-> "object", entries |-> ...]  the entries of the object in    *)
(*        the order of config.items(), each [name, object, data]: data is  *)
(*        the entry's own object, object is false for an entry that is     *)
(*        no object (data is then empty).                                  *)
(***************************************************************************)
NoFile == [kind |-> "none"]

\* The fields of the dataclass but name, which _load_from_file passes itself.
FlagConfigKeywords ==
    {"enabled", "rollout_percentage", "target_users", "target_segments",
     "variant", "description"}

\* An entry that replaces the flag by a definition made of the entry alone.
setattrs_replacing(flag, data) == FlagConfig(flag.name, data)

\* setattr(flag, key, value) for every item of data.
setattrs(flag, data) ==
    [k \in DOMAIN flag \cup DOMAIN data |->
        IF k \in DOMAIN data THEN data[k] ELSE flag[k]]

\* One entry of the loop, lines 172-178: the flags after it, or the
\* exception raised.
load_file_entry(fl, entry) ==
    IF ~entry.object
    THEN [flags |-> fl,
          raised |-> IF entry.name \in DOMAIN fl THEN "AttributeError"
                     ELSE "TypeError"]
    ELSE IF entry.name \in DOMAIN fl
    THEN [flags |-> [fl EXCEPT ![entry.name] = setattrs(@, entry.data)],
          raised |-> None]
    ELSE IF DOMAIN entry.data \subseteq FlagConfigKeywords
    THEN [flags |->
            [n \in DOMAIN fl \cup {entry.name} |->
                IF n = entry.name THEN FlagConfig(entry.name, entry.data)
                ELSE fl[n]],
          raised |-> None]
    ELSE [flags |-> fl, raised |-> "TypeError"]

\* The loop over the first n entries; an exception ends it.
RECURSIVE load_file_entries(_, _, _)
load_file_entries(fl, entries, n) ==
    IF n = 0 THEN [flags |-> fl, raised |-> None]
    ELSE LET before == load_file_entries(fl, entries, n - 1)
         IN  IF before.raised # None THEN before
             ELSE load_file_entry(before.flags, entries[n])

\* _load_from_file: "except Exception" keeps whatever was raised inside;
\* `raised` tells what the log line says.
load_from_file(fl, file) ==
    IF file.kind = "object"
    THEN load_file_entries(fl, file.entries, Len(file.entries))
    ELSE [flags |-> fl,
          raised |-> IF file.kind = "unreadable" THEN "OSError"
                     ELSE IF file.kind = "malformed" THEN "JSONDecodeError"
                     ELSE "AttributeError"]

\* A constructor that reads the environment before the file.
init_env_first(file, env) ==
    LET from_env == load_from_env(load_defaults, env, Len(env))
    IN  IF file.kind = "none" THEN from_env
        ELSE [flags |-> load_from_file(from_env.flags, file).flags,
              raised |-> from_env.raised]

\* FeatureFlagManager.__init__: defaults, then the file if there is one,
\* then the environment.  Only _load_from_env lets an exception out.
init(file, env) ==
    LET defaults == load_defaults
        from_file == IF file.kind = "none" THEN defaults
                     ELSE load_from_file(defaults, file).flags
    IN  load_from_env(from_file, env, Len(env))

(***************************************************************************)
(* The config files and the environments the managers are constructed      *)
(* with.                                                                   *)
(***************************************************************************)
\* "PATH"
KeyPath ==
    <<80, 65, 84, 72>>

\* "FF_AGGRESSIVE_CAPTURE"
KeyAggressiveCapture ==
    <<70, 70, 95, 65, 71, 71, 82, 69, 83, 83, 73, 86, 69, 95, 67, 65, 80,
      84, 85, 82, 69>>

\* "FF_Aggressive_Capture"
KeyAggressiveCaptureMixed ==
    <<70, 70, 95, 65, 103, 103, 114, 101, 115, 115, 105, 118, 101, 95, 67,
      97, 112, 116, 117, 114, 101>>

\* "ff_aggressive_capture"
KeyAggressiveCaptureLower ==
    <<102, 102, 95, 97, 103, 103, 114, 101, 115, 115, 105, 118, 101, 95,
      99, 97, 112, 116, 117, 114, 101>>

\* "FF_SHOW_RISKS_UPFRONT"
KeyShowRisksUpfront ==
    <<70, 70, 95, 83, 72, 79, 87, 95, 82, 73, 83, 75, 83, 95, 85, 80, 70,
      82, 79, 78, 84>>

\* "FF_NONEXISTENT_FLAG"
KeyNonexistentFlag ==
    <<70, 70, 95, 78, 79, 78, 69, 88, 73, 83, 84, 69, 78, 84, 95, 70, 76,
      65, 71>>

\* The values an FF_ variable of aggressive_capture is given.
EnvValues ==
    {<<116, 114, 117, 101>>,       \* "true"
     <<32, 79, 110, 32>>,          \* " On "
     <<49>>,                       \* "1"
     <<70, 65, 76, 83, 69>>,       \* "FALSE"
     <<48>>,                       \* "0"
     <<111, 102, 102, 10>>,        \* "off" and a newline
     <<54, 53>>,                   \* "65"
     <<32, 51, 48, 32>>,           \* " 30 "
     <<48, 55>>,                   \* "07"
     <<49, 48, 48>>,               \* "100"
     <<49, 53, 48>>,               \* "150"
     <<97, 98, 99>>,               \* "abc"
     <<45, 53>>,                   \* "-5"
     <<>>,                         \* ""
     <<178>>,                      \* superscript two
     <<53, 179>>}                  \* 5 and superscript three

\* os.environ: no FF_ variable; one for aggressive_capture with each of the
\* values; a key in mixed case and one in lower case; the kill of
\* show_risks_upfront; three variables of which the second is not
\* recognized; and a value that int() rejects followed by another variable.
Environs ==
    {<<<<KeyPath, <<47, 98, 105, 110>>>>>>}
    \cup {<<<<KeyPath, <<47, 98, 105, 110>>>>, <<KeyAggressiveCapture, v>>>> :
            v \in EnvValues}
    \cup {<<<<KeyAggressiveCaptureMixed, <<116, 114, 117, 101>>>>>>,
          <<<<KeyAggressiveCaptureLower, <<116, 114, 117, 101>>>>>>,
          <<<<KeyShowRisksUpfront, <<102, 97, 108, 115, 101>>>>>>,
          <<<<KeyNonexistentFlag, <<54, 53>>>>,
            <<KeyAggressiveCapture, <<97, 98, 99>>>>,
            <<KeyShowRisksUpfront, <<111, 102, 102>>>>>>,
          <<<<KeyAggressiveCapture, <<178>>>>,
            <<KeyShowRisksUpfront, <<102, 97, 108, 115, 101>>>>>>}

FileEntry(name, data) == [name |-> name, object |-> TRUE, data |-> data]

JsonObject(entries) == [kind |-> "object", entries |-> entries]

\* What is at config_path: nothing; a file that cannot be read, parsed or
\* iterated; and JSON objects that merge into a default flag, that go
\* beyond 100%, that create a flag, that have an entry FlagConfig() does
\* not take after one that applies, that have an entry that is no object
\* after one that applies, that give a flag an empty variant, that name a
\* target user twice, and that have a name among the fields of an entry.
ConfigFiles ==
    {NoFile, [kind |-> "unreadable"], [kind |-> "malformed"],
     [kind |-> "array"],
     JsonObject(<<FileEntry("aggressive_capture",
                            [enabled |-> TRUE, rollout_percentage |-> 30])>>),
     JsonObject(<<FileEntry("aggressive_capture",
                            [rollout_percentage |-> 150])>>),
     JsonObject(<<FileEntry("show_risks_upfront",
                            [target_users |-> <<"vip_user_1">>]),
                  FileEntry("nonexistent_flag",
                            [enabled |-> TRUE, rollout_percentage |-> 30,
                             variant |-> "casual"])>>),
     JsonObject(<<FileEntry("aggressive_capture",
                            [enabled |-> TRUE, rollout_percentage |-> 65]),
                  FileEntry("nonexistent_flag",
                            [enabled |-> TRUE, percentage |-> 30])>>),
     JsonObject(<<FileEntry("show_risks_upfront", [enabled |-> FALSE]),
                  [name |-> "aggressive_capture", object |-> FALSE,
                   data |-> <<>>]>>),
     JsonObject(<<FileEntry("aggressive_capture",
                            [enabled |-> TRUE, rollout_percentage |-> 65,
                             variant |-> ""])>>),
     JsonObject(<<FileEntry("aggressive_capture",
                            [target_users |->
                                <<"vip_user_1", "vip_user_1">>])>>),
     JsonObject(<<FileEntry("aggressive_capture",
                            [name |-> "show_risks_upfront"])>>)}

(***************************************************************************)
(* The calls, each a whole handler.                                        *)
(***************************************************************************)
Returned(op, flag_name, user_id, ret, hashed, drew) ==
    [op |-> op, flag_name |-> flag_name, user_id |-> user_id,
     ret |-> ret, hashed |-> hashed, drew |-> drew]

\* FeatureFlagManager(): defaults only (no config file, no FF_ variables).
Constructed == Returned("__init__", None, None, None, FALSE, FALSE)

\* The threads of the process; a call that is not run by a thread of the
\* model leaves them where they are.
Threads == {1, 2}

\* No call in progress, none made yet.
NoFrame == [op |-> None, calls |-> 0]

\* None where a manager is expected: Managers are numbered from 1.
NoManager == 0

\* The constructor raised: there is no manager.
NotConstructed(raised) ==
    [op |-> "__init__", flag_name |-> None, user_id |-> None,
     raised |-> raised]

\* FeatureFlagManager(config_path) for every manager of ms, with `file` at
\* config_path and `env` as os.environ; no thread inside a call.  A manager
\* whose constructor raises has no flags and no audit log.
ConstructFrom(ms, file, env) ==
    LET loaded == init(file, env)
        made == IF loaded.raised = None THEN ms ELSE {}
    IN  /\ config_file = file
        /\ environ = env
        /\ flags = [m \in made |-> loaded.flags]
        /\ audit_log = [m \in made |-> <<>>]
        /\ utcnow = 0
        /\ last = [m \in ms |->
                        IF loaded.raised = None THEN Constructed
                        ELSE NotConstructed(loaded.raised)]
        /\ decided = [m \in ms |-> {}]
        /\ was_enabled = [m \in ms |-> {}]
        /\ pc = [t \in Threads |-> "idle"]
        /\ frame = [t \in Threads |-> NoFrame]
        /\ recorded = <<>>
        /\ _flag_manager = NoManager

\* FeatureFlagManager(): no config file, no FF_ variable in the environment.
Construct(ms) ==
    /\ user_hashes = HashTable(HashArgs)
    /\ ConstructFrom(ms, NoFile, <<>>)

\* One manager.
Init == Construct({1})

IsEnabled(self, flag_name, user_id) ==
    /\ self \in DOMAIN flags
    /\ \E draw \in IF is_enabled(flags[self], user_hashes, self, flag_name,
                                user_id, 0).drew
                  THEN RandomDraws ELSE {0} :
        LET r == is_enabled(flags[self], user_hashes, self, flag_name,
                            user_id, draw)
        IN  /\ Len(r.audit) > 0 => utcnow < MaxRecords
            /\ IF Len(r.audit) > 0
               THEN /\ utcnow' = utcnow + 1
                    /\ audit_log' =
                        [audit_log EXCEPT ![self] =
                            log_evaluation(@,
                                audit_entry(utcnow + 1, flag_name, user_id,
                                            r.audit[1].result,
                                            r.audit[1].reason))]
               ELSE UNCHANGED <<utcnow, audit_log>>
            /\ last' = [last EXCEPT ![self] =
                            Returned("is_enabled", flag_name, user_id,
                                     r.ret, r.hashed, r.drew)]
    /\ UNCHANGED <<flags, user_hashes, config_file, environ,
                   _flag_manager>>

UpdateFlag(self, flag_name, kw) ==
    /\ self \in DOMAIN flags
    /\ flags' = [flags EXCEPT ![self] = update_flag(@, flag_name, kw)]
    /\ last' = [last EXCEPT ![self] =
                    Returned("update_flag", flag_name, None, None,
                             FALSE, FALSE)]
    /\ UNCHANGED <<audit_log, utcnow, user_hashes, config_file, environ,
                   _flag_manager>>

\* export_audit_log: self.audit_log.copy().
ExportAuditLog(self) ==
    /\ self \in DOMAIN flags
    /\ last' = [last EXCEPT ![self] =
                    Returned("export_audit_log", None, None,
                             audit_log[self], FALSE, FALSE)]
    /\ UNCHANGED <<flags, audit_log, utcnow, user_hashes, config_file,
                   environ,
                   _flag_manager>>

\* A call made as a whole: no history is kept and no thread moves.
Whole == UNCHANGED <<decided, was_enabled, pc, frame, recorded>>

Next ==
    \/ \E self \in Managers, flag_name \in FlagNames, user_id \in UserIds :
            IsEnabled(self, flag_name, user_id) /\ Whole
    \/ \E self \in Managers, call \in UpdateCalls :
            UpdateFlag(self, call[1], call[2]) /\ Whole
    \/ \E self \in Managers : ExportAuditLog(self) /\ Whole

Spec == Init /\ [][Next]_vars

(***************************************************************************)
(* A manager constructed with a config file and an environment, and the    *)
(* calls made on it.                                                       *)
(***************************************************************************)
\* A return of the variant whatever it is.
variant_unchecked(variant, default) == variant

\* flag.variant or default: None and "" are falsy.
variant_or_default(variant, default) ==
    IF variant \in {None, ""} THEN default ELSE variant

\* get_variant: is_enabled, with what it records, then the flag's variant.
GetVariant(self, flag_name, user_id, default) ==
    /\ self \in DOMAIN flags
    /\ \E draw \in IF is_enabled(flags[self], user_hashes, self, flag_name,
                                user_id, 0).drew
                  THEN RandomDraws ELSE {0} :
        LET r == is_enabled(flags[self], user_hashes, self, flag_name,
                            user_id, draw)
        IN  /\ Len(r.audit) > 0 => utcnow < MaxRecords
            /\ IF Len(r.audit) > 0
               THEN /\ utcnow' = utcnow + 1
                    /\ audit_log' =
                        [audit_log EXCEPT ![self] =
                            log_evaluation(@,
                                audit_entry(utcnow + 1, flag_name, user_id,
                                            r.audit[1].result,
                                            r.audit[1].reason))]
               ELSE UNCHANGED <<utcnow, audit_log>>
            /\ last' = [last EXCEPT ![self] =
                    IF ~r.ret
                    THEN Returned("get_variant", flag_name, user_id,
                                  default, r.hashed, r.drew)
                    ELSE IF flag_name \notin DOMAIN flags[self]
                    THEN [op |-> "get_variant", flag_name |-> flag_name,
                          user_id |-> user_id, raised |-> "KeyError"]
                    ELSE Returned("get_variant", flag_name, user_id,
                                  variant_or_default(
                                      flags[self][flag_name].variant,
                                      default),
                                  r.hashed, r.drew)]
    /\ UNCHANGED <<flags, user_hashes, config_file, environ,
                   _flag_manager>>

LoadUserIds == {None, "user_005", "vip_user_1"}

LoadUpdateCalls ==
    {<<"aggressive_capture", [rollout_percentage |-> -20]>>,
     <<"aggressive_capture",
       [target_users |-> <<"user_005", "user_005">>]>>,
     <<"nonexistent_flag", [enabled |-> TRUE, rollout_percentage |-> 150]>>}

\* How many audit entries are recorded after a construction.
LoadRecords == 1

InitLoad ==
    /\ user_hashes = HashTable(HashArgs)
    /\ \E file \in ConfigFiles, env \in Environs :
            ConstructFrom({1}, file, env)

NextLoad ==
    \/ \E self \in Managers, flag_name \in FlagNames,
          user_id \in LoadUserIds :
            /\ IsEnabled(self, flag_name, user_id)
            /\ utcnow' <= LoadRecords
            /\ Whole
    \/ \E self \in Managers, flag_name \in FlagNames,
          user_id \in LoadUserIds :
            /\ GetVariant(self, flag_name, user_id, "control")
            /\ utcnow' <= LoadRecords
            /\ Whole
    \/ \E self \in Managers, call \in LoadUpdateCalls :
            UpdateFlag(self, call[1], call[2]) /\ Whole

SpecLoad == InitLoad /\ [][NextLoad]_vars

(***************************************************************************)
(* The same managers with the calls of an admin dashboard next to the      *)
(* evaluations: get_all_flags and export_audit_log.                        *)
(***************************************************************************)
\* asdict(flag) for every flag: dicts and lists of their own.
get_all_flags(fl) == [name \in DOMAIN fl |-> fl[name]]

\* A get_all_flags that takes the definitions out of the registry as it
\* reports them.
GetAllFlagsPopping(self) ==
    /\ self \in DOMAIN flags
    /\ last' = [last EXCEPT ![self] =
                    Returned("get_all_flags", None, None,
                             get_all_flags(flags[self]), FALSE, FALSE)]
    /\ flags' = [flags EXCEPT ![self] = <<>>]
    /\ UNCHANGED <<audit_log, utcnow, user_hashes, config_file, environ,
                   _flag_manager>>

GetAllFlags(self) ==
    /\ self \in DOMAIN flags
    /\ last' = [last EXCEPT ![self] =
                    Returned("get_all_flags", None, None,
                             get_all_flags(flags[self]), FALSE, FALSE)]
    /\ UNCHANGED <<flags, audit_log, utcnow, user_hashes, config_file,
                   environ,
                   _flag_manager>>

NextObserve ==
    \/ \E self \in Managers, flag_name \in FlagNames,
          user_id \in LoadUserIds :
            /\ IsEnabled(self, flag_name, user_id)
            /\ utcnow' <= LoadRecords
            /\ Whole
    \/ \E self \in Managers, flag_name \in FlagNames,
          user_id \in LoadUserIds :
            /\ GetVariant(self, flag_name, user_id, "control")
            /\ utcnow' <= LoadRecords
            /\ Whole
    \/ \E self \in Managers : GetAllFlags(self) /\ Whole
    \/ \E self \in Managers : ExportAuditLog(self) /\ Whole
    \/ \E self \in Managers, call \in LoadUpdateCalls :
            UpdateFlag(self, call[1], call[2]) /\ Whole

SpecObserve == InitLoad /\ [][NextObserve]_vars

(***************************************************************************)
(* A rollout: the calls of one manager, with the users that got true       *)
(* remembered for as long as the flag's percentage is only raised.         *)
(***************************************************************************)
\* An update that leaves enabled true and target_users as they were and
\* makes rollout_percentage larger.
only_raises(before, after) ==
    /\ before.enabled
    /\ after.enabled
    /\ after.target_users = before.target_users
    /\ after.rollout_percentage > before.rollout_percentage

\* The user is remembered with the percentage at which it first got true.
RolloutIsEnabled(self, flag_name, user_id) ==
    /\ IsEnabled(self, flag_name, user_id)
    /\ was_enabled' =
        [was_enabled EXCEPT ![self] =
            IF /\ Truthy(user_id)
               /\ flag_name \in DOMAIN flags[self]
               /\ last'[self].ret = TRUE
               /\ \A e \in @ : <<e[1], e[2]>> # <<flag_name, user_id>>
            THEN @ \cup {<<flag_name, user_id,
                           flags[self][flag_name].rollout_percentage>>}
            ELSE @]
    /\ UNCHANGED <<decided, pc, frame, recorded>>

\* Any other update of the flag forgets its users.
RolloutUpdateFlag(self, flag_name, kw) ==
    /\ UpdateFlag(self, flag_name, kw)
    /\ was_enabled' =
        [was_enabled EXCEPT ![self] =
            {e \in @ :
                \/ e[1] # flag_name
                \/ only_raises(flags[self][flag_name],
                               flags'[self][flag_name])}]
    /\ UNCHANGED <<decided, pc, frame, recorded>>

NextRollout ==
    \/ \E self \in Managers, flag_name \in FlagNames, user_id \in UserIds :
            RolloutIsEnabled(self, flag_name, user_id)
    \/ \E self \in Managers, call \in UpdateCalls :
            RolloutUpdateFlag(self, call[1], call[2])

SpecRollout == Init /\ [][NextRollout]_vars

(***************************************************************************)
(* Two managers, each with its own flags and audit log, as two processes   *)
(* behind a load balancer; what each decided is remembered until it        *)
(* updates the flag.                                                       *)
(***************************************************************************)
PairFlagNames == {"aggressive_capture"}

PairUserIds == {"user_005", "vip_user_1"}

\* How many audit entries the two managers record between them.
PairRecords == 3

PairUpdateCalls ==
    {"aggressive_capture"} \X
        {[enabled |-> TRUE, rollout_percentage |-> 65],
         [rollout_percentage |-> 30],
         [target_users |-> <<"vip_user_1", "">>]}

InitPair == Construct(Managers)

PairIsEnabled(self, flag_name, user_id) ==
    /\ IsEnabled(self, flag_name, user_id)
    /\ utcnow' <= PairRecords
    /\ decided' = [decided EXCEPT ![self] =
                        @ \cup {<<flag_name, user_id, last'[self].ret>>}]
    /\ UNCHANGED <<was_enabled, pc, frame, recorded>>

PairUpdateFlag(self, flag_name, kw) ==
    /\ UpdateFlag(self, flag_name, kw)
    /\ decided' = [decided EXCEPT ![self] = {e \in @ : e[1] # flag_name}]
    /\ UNCHANGED <<was_enabled, pc, frame, recorded>>

NextPair ==
    \/ \E self \in Managers, flag_name \in PairFlagNames,
          user_id \in PairUserIds :
            PairIsEnabled(self, flag_name, user_id)
    \/ \E self \in Managers, call \in PairUpdateCalls :
            PairUpdateFlag(self, call[1], call[2])

SpecPair == InitPair /\ [][NextPair]_vars

(***************************************************************************)
(* Threads of one process calling the one manager of get_flag_manager().   *)
(* The code takes no lock, so a thread can be switched out between any two *)
(* reads or writes of the manager's attributes: one step per attribute     *)
(* access, named by its line.                                              *)
(***************************************************************************)
TheManager == 1

ThreadFlagNames == {"aggressive_capture"}

ThreadUserIds == {None, "user_005"}

ThreadUpdateArgs ==
    {[enabled |-> TRUE, rollout_percentage |-> 30],
     [rollout_percentage |-> 0, target_users |-> <<"user_005">>]}

\* The kill switch thrown, as the demo does, with the rollout taken back.
WriterUpdateArgs ==
    ThreadUpdateArgs \cup {[enabled |-> FALSE, rollout_percentage |-> 0]}

\* How many calls the threads make between them.
MaxThreadCalls == 5

CallsMade == frame[1].calls + frame[2].calls

Running(t) == pc[t] \notin {"idle", "returned"}

\* The thread is inside is_enabled(flag_name, ...).
Evaluating(t, flag_name) ==
    Running(t) /\ frame[t].op = "is_enabled" /\ frame[t].flag_name = flag_name

\* The thread is inside update_flag(flag_name, ...).
Updating(t, flag_name) ==
    Running(t) /\ frame[t].op = "update_flag"
        /\ frame[t].flag_name = flag_name

\* "flag": the FlagConfig object both calls look up; update_flag writes its
\* fields in place.
TheFlag(t) == flags[TheManager][frame[t].flag_name]

\* The next line of the call.
Goto(t, label, locals) ==
    /\ pc' = [pc EXCEPT ![t] = label]
    /\ frame' = [frame EXCEPT ![t] = locals @@ @]

\* "return ret" from is_enabled: the locals go, the value stays with the
\* update_flag calls that ran while the call did.
Return(t, ret) ==
    /\ pc' = [pc EXCEPT ![t] = "returned"]
    /\ frame' = [frame EXCEPT ![t] =
                    [op |-> @.op, flag_name |-> @.flag_name,
                     user_id |-> @.user_id, updates |-> @.updates,
                     ret |-> ret, calls |-> @.calls]]

\* is_enabled is entered; lines 230-234.
CallIsEnabled(t, flag_name, user_id) ==
    /\ ~Running(t)
    /\ CallsMade < MaxThreadCalls
    /\ LET called ==
                [op |-> "is_enabled", flag_name |-> flag_name,
                 user_id |-> user_id,
                 updates |->
                    IF \E u \in Threads : Updating(u, flag_name)
                    THEN LET u == CHOOSE u \in Threads :
                                        Updating(u, flag_name)
                         IN  <<[kw |-> frame[u].kw,
                                alone |-> frame[u].alone,
                                before |-> frame[u].before,
                                after |-> frame[u].after]>>
                    ELSE <<>>,
                 calls |-> frame[t].calls + 1]
       IN  IF flag_name \notin DOMAIN flags[TheManager]
           THEN /\ pc' = [pc EXCEPT ![t] = "returned"]
                /\ frame' = [frame EXCEPT ![t] = [ret |-> FALSE] @@ called]
           ELSE /\ pc' = [pc EXCEPT ![t] = "237"]
                /\ frame' = [frame EXCEPT ![t] = called]
    /\ UNCHANGED <<flags, audit_log, utcnow, last, user_hashes, config_file,
                   environ, decided,
                   was_enabled, recorded,
                   _flag_manager>>

\* What a step of is_enabled leaves alone up to its _log_evaluation.
ReadOnly ==
    UNCHANGED <<flags, audit_log, utcnow, last, user_hashes, config_file,
                environ, decided,
                was_enabled, recorded,
                   _flag_manager>>

\* 237: "if not flag.enabled: return False".
ReadEnabled(t) ==
    /\ pc[t] = "237"
    /\ IF kill_switch(TheFlag(t)) THEN Return(t, FALSE)
       ELSE Goto(t, "241", <<>>)
    /\ ReadOnly

\* 241-242: "if user_id and user_id in flag.target_users", and the
\* arguments of the _log_evaluation call.
ReadTargetUsers(t) ==
    /\ pc[t] = "241"
    /\ IF is_targeted(TheFlag(t), frame[t].user_id)
       THEN Goto(t, "301", [result |-> TRUE, reason |-> "targeted_user"])
       ELSE Goto(t, "246", <<>>)
    /\ ReadOnly

\* 246: "if flag.rollout_percentage == 100: return True".
ReadRolloutAll(t) ==
    /\ pc[t] = "246"
    /\ IF rollout_all(TheFlag(t)) THEN Return(t, TRUE)
       ELSE Goto(t, "248", <<>>)
    /\ ReadOnly

\* 248-253: "elif flag.rollout_percentage == 0: return False", else
\* "if user_id".
ReadRolloutNone(t) ==
    /\ pc[t] = "248"
    /\ IF rollout_none(TheFlag(t)) THEN Return(t, FALSE)
       ELSE IF Truthy(frame[t].user_id) THEN Goto(t, "254", <<>>)
       ELSE Goto(t, "261", <<>>)
    /\ ReadOnly

\* 254-255: the _hash_user call, then
\* "enabled = user_hash < flag.rollout_percentage".
ReadRolloutHash(t) ==
    /\ pc[t] = "254"
    /\ LET user_hash == user_hashes[<<TheManager, frame[t].flag_name,
                                      frame[t].user_id>>]
       IN  Goto(t, "256",
                [result |-> in_rollout(user_hash,
                                       TheFlag(t).rollout_percentage)])
    /\ ReadOnly

\* 256: the reason, f"rollout_{flag.rollout_percentage}%".
ReadRolloutReason(t) ==
    /\ pc[t] = "256"
    /\ Goto(t, "301",
            [reason |-> rollout_reason(TheFlag(t).rollout_percentage)])
    /\ ReadOnly

\* 261: "return random.randint(0, 99) < flag.rollout_percentage".
ReadRolloutRandom(t) ==
    /\ pc[t] = "261"
    /\ \E draw \in RandomDraws :
            /\ pc' = [pc EXCEPT ![t] = "returned"]
            /\ frame' = [frame EXCEPT ![t] =
                    [op |-> @.op, flag_name |-> @.flag_name,
                     user_id |-> @.user_id, updates |-> @.updates,
                     ret |-> draw < TheFlag(t).rollout_percentage,
                     draw |-> draw, calls |-> @.calls]]
    /\ ReadOnly

\* 301-302: self.audit_log is looked up for its append, then the entry is
\* built, with datetime.utcnow() called for it.  The thread now holds the
\* list object that self.audit_log names at this moment.
BuildEntry(t) ==
    /\ pc[t] = "301"
    /\ utcnow < MaxRecords
    /\ utcnow' = utcnow + 1
    /\ Goto(t, "append",
            [entry |-> audit_entry(utcnow + 1, frame[t].flag_name,
                                   frame[t].user_id, frame[t].result,
                                   frame[t].reason),
             list |-> "self.audit_log"])
    /\ UNCHANGED <<flags, audit_log, last, user_hashes, config_file,
                   environ, decided,
                   was_enabled, recorded,
                   _flag_manager>>

\* 301: the append itself, to the list object the thread holds.  An append
\* to a list that self.audit_log names no more changes nothing that anyone
\* reads.
AppendEntry(t) ==
    /\ pc[t] = "append"
    /\ audit_log' =
        IF frame[t].list = "self.audit_log"
        THEN [audit_log EXCEPT ![TheManager] = Append(@, frame[t].entry)]
        ELSE audit_log
    /\ recorded' = Append(recorded, frame[t].entry.timestamp)
    /\ Goto(t, "310", <<>>)
    /\ UNCHANGED <<flags, utcnow, last, user_hashes, config_file,
                   environ, decided, was_enabled,
                   _flag_manager>>

\* 310: "if len(self.audit_log) > 1000"; without a trim _log_evaluation
\* returns, and is_enabled does (243, 257).
TestLength(t) ==
    /\ pc[t] = "310"
    /\ IF Len(audit_log[TheManager]) > AuditCap THEN Goto(t, "311", <<>>)
       ELSE Return(t, frame[t].result)
    /\ ReadOnly

\* 311, right-hand side: self.audit_log[-1000:], a new list.
SliceLog(t) ==
    /\ pc[t] = "311"
    /\ Goto(t, "store",
            [sliced |-> IF Len(audit_log[TheManager]) > AuditCap
                        THEN last_entries(audit_log[TheManager], AuditCap)
                        ELSE audit_log[TheManager]])
    /\ ReadOnly

\* A list object as a thread holds it: the list that self.audit_log names
\* now, whose entries are those of the attribute, or a list that the
\* attribute does not name (one that _log_evaluation has replaced, or a
\* copy), with the entries it has.
LiveList == [list |-> "self.audit_log", entries |-> <<>>]

entries_of(ref, log) ==
    IF ref.list = "self.audit_log" THEN log ELSE ref.entries

\* The frame of an export_audit_log call when self.audit_log is assigned a
\* new list: what the call holds of the old list stays the old list.
Rebound(fr, log) ==
    [k \in DOMAIN fr |->
        IF k \in {"held", "ret"} /\ fr[k].list = "self.audit_log"
        THEN [list |-> "replaced", entries |-> log]
        ELSE fr[k]]

\* 311, the assignment: self.audit_log names the new list, and a thread
\* that is about to append holds the list that has been replaced.
StoreLog(t) ==
    /\ pc[t] = "store"
    /\ audit_log' = [audit_log EXCEPT ![TheManager] = frame[t].sliced]
    /\ pc' = [pc EXCEPT ![t] = "returned"]
    /\ frame' =
        [u \in Threads |->
            IF u = t
            THEN [op |-> frame[t].op, flag_name |-> frame[t].flag_name,
                  user_id |-> frame[t].user_id,
                  updates |-> frame[t].updates, ret |-> frame[t].result,
                  calls |-> frame[t].calls]
            ELSE IF pc[u] = "append"
            THEN [list |-> "replaced"] @@ frame[u]
            ELSE IF frame[u].op = "export_audit_log"
            THEN Rebound(frame[u], audit_log[TheManager])
            ELSE frame[u]]
    /\ UNCHANGED <<flags, utcnow, last, user_hashes, config_file,
                   environ, decided, was_enabled,
                   recorded,
                   _flag_manager>>

\* update_flag is entered; lines 335-339.  The is_enabled calls of the flag
\* that are running take note of the update: its arguments, whether it is
\* the only update of the flag that is running, the flag before it and the
\* flag as the whole update makes it.  The call is numbered, and each
\* update of the flag knows the numbers of those that ran while it did.
CallUpdateFlag(t, flag_name, kw) ==
    /\ ~Running(t)
    /\ CallsMade < MaxThreadCalls
    /\ LET known == flag_name \in DOMAIN flags[TheManager]
           alone == \A u \in Threads : ~Updating(u, flag_name)
           id == CallsMade + 1
           update ==
                [kw |-> kw,
                 id |-> id,
                 during |-> {frame[u].id :
                                u \in {v \in Threads :
                                            Updating(v, flag_name)}},
                 alone |-> alone,
                 before |-> flags[TheManager][flag_name],
                 after |-> update_flag(flags[TheManager], flag_name,
                                       kw)[flag_name]]
       IN  /\ pc' = [pc EXCEPT ![t] = IF known THEN "341" ELSE "returned"]
           /\ frame' =
                [u \in Threads |->
                    IF u = t
                    THEN IF known
                         THEN [op |-> "update_flag",
                               flag_name |-> flag_name,
                               calls |-> frame[t].calls + 1] @@ update
                         ELSE [op |-> "update_flag",
                               flag_name |-> flag_name,
                               calls |-> frame[t].calls + 1]
                    ELSE IF known /\ Evaluating(u, flag_name)
                    THEN [updates |-> Append(frame[u].updates, update)]
                            @@ frame[u]
                    ELSE IF known /\ Updating(u, flag_name)
                    THEN [alone |-> FALSE,
                          during |-> frame[u].during \cup {id}] @@ frame[u]
                    ELSE frame[u]]
    /\ ReadOnly

\* 341-342: "if enabled is not None: flag.enabled = enabled".
WriteEnabled(t) ==
    /\ pc[t] = "341"
    /\ flags' =
        IF "enabled" \in DOMAIN frame[t].kw
        THEN [flags EXCEPT ![TheManager][frame[t].flag_name].enabled =
                                frame[t].kw.enabled]
        ELSE flags
    /\ Goto(t, "343", <<>>)
    /\ UNCHANGED <<audit_log, utcnow, last, user_hashes, config_file,
                   environ, decided,
                   was_enabled, recorded,
                   _flag_manager>>

\* 343-344: "if rollout_percentage is not None:
\* flag.rollout_percentage = max(0, min(100, rollout_percentage))".
WriteRolloutPercentage(t) ==
    /\ pc[t] = "343"
    /\ flags' =
        IF "rollout_percentage" \in DOMAIN frame[t].kw
        THEN [flags EXCEPT
                ![TheManager][frame[t].flag_name].rollout_percentage =
                                clamp(frame[t].kw.rollout_percentage)]
        ELSE flags
    /\ Goto(t, "345", <<>>)
    /\ UNCHANGED <<audit_log, utcnow, last, user_hashes, config_file,
                   environ, decided,
                   was_enabled, recorded,
                   _flag_manager>>

\* 345-348: "if target_users is not None: flag.target_users = target_users",
\* the log line, and the return.
WriteTargetUsers(t) ==
    /\ pc[t] = "345"
    /\ flags' =
        IF "target_users" \in DOMAIN frame[t].kw
        THEN [flags EXCEPT ![TheManager][frame[t].flag_name].target_users =
                                frame[t].kw.target_users]
        ELSE flags
    /\ pc' = [pc EXCEPT ![t] = "returned"]
    /\ frame' = [frame EXCEPT ![t] =
                    [op |-> @.op, flag_name |-> @.flag_name,
                     calls |-> @.calls, id |-> @.id, kw |-> @.kw,
                     before |-> @.before, during |-> @.during]]
    /\ UNCHANGED <<audit_log, utcnow, last, user_hashes, config_file,
                   environ, decided,
                   was_enabled, recorded,
                   _flag_manager>>

NextThreads ==
    \/ \E t \in Threads, flag_name \in ThreadFlagNames,
          user_id \in ThreadUserIds :
            CallIsEnabled(t, flag_name, user_id)
    \/ \E t \in Threads : ReadEnabled(t)
    \/ \E t \in Threads : ReadTargetUsers(t)
    \/ \E t \in Threads : ReadRolloutAll(t)
    \/ \E t \in Threads : ReadRolloutNone(t)
    \/ \E t \in Threads : ReadRolloutHash(t)
    \/ \E t \in Threads : ReadRolloutReason(t)
    \/ \E t \in Threads : ReadRolloutRandom(t)
    \/ \E t \in Threads : BuildEntry(t)
    \/ \E t \in Threads : AppendEntry(t)
    \/ \E t \in Threads : TestLength(t)
    \/ \E t \in Threads : SliceLog(t)
    \/ \E t \in Threads : StoreLog(t)
    \/ \E t \in Threads, flag_name \in ThreadFlagNames,
          kw \in ThreadUpdateArgs :
            CallUpdateFlag(t, flag_name, kw)
    \/ \E t \in Threads : WriteEnabled(t)
    \/ \E t \in Threads : WriteRolloutPercentage(t)
    \/ \E t \in Threads : WriteTargetUsers(t)

SpecThreads == Init /\ [][NextThreads]_vars

(***************************************************************************)
(* A thread that evaluates and a thread that exports the audit log, on a   *)
(* manager whose config file has aggressive_capture enabled at 30%.        *)
(***************************************************************************)
\* An export that hands out the list it is asked to copy.
list_itself(ref, log) == ref

\* list.copy(): a new list with the entries the list has now.
list_copy(ref, log) == [list |-> "copy", entries |-> entries_of(ref, log)]

\* export_audit_log is entered.
CallExportAuditLog(t) ==
    /\ ~Running(t)
    /\ CallsMade < MaxThreadCalls
    /\ pc' = [pc EXCEPT ![t] = "322"]
    /\ frame' = [frame EXCEPT ![t] =
                    [op |-> "export_audit_log", calls |-> @.calls + 1]]
    /\ ReadOnly

\* 322: self.audit_log is looked up.
LoadAuditLog(t) ==
    /\ pc[t] = "322"
    /\ Goto(t, "copy", [held |-> LiveList])
    /\ ReadOnly

\* 322: .copy() of the list that was looked up, and the return.
CopyAuditLog(t) ==
    /\ pc[t] = "copy"
    /\ pc' = [pc EXCEPT ![t] = "returned"]
    /\ frame' = [frame EXCEPT ![t] =
                    [op |-> @.op, calls |-> @.calls,
                     ret |-> list_copy(@.held, audit_log[TheManager])]]
    /\ ReadOnly

Evaluator == 1
Exporter == 2

InitExport ==
    /\ user_hashes = HashTable(HashArgs)
    /\ ConstructFrom({TheManager},
                     JsonObject(<<FileEntry("aggressive_capture",
                                            [enabled |-> TRUE,
                                             rollout_percentage |-> 30])>>),
                     <<>>)

NextExport ==
    \/ \E user_id \in ThreadUserIds \ {None} :
            CallIsEnabled(Evaluator, "aggressive_capture", user_id)
    \/ ReadEnabled(Evaluator)
    \/ ReadTargetUsers(Evaluator)
    \/ ReadRolloutAll(Evaluator)
    \/ ReadRolloutNone(Evaluator)
    \/ ReadRolloutHash(Evaluator)
    \/ ReadRolloutReason(Evaluator)
    \/ BuildEntry(Evaluator)
    \/ AppendEntry(Evaluator)
    \/ TestLength(Evaluator)
    \/ SliceLog(Evaluator)
    \/ StoreLog(Evaluator)
    \/ CallExportAuditLog(Exporter)
    \/ LoadAuditLog(Exporter)
    \/ CopyAuditLog(Exporter)

SpecExport == InitExport /\ [][NextExport]_vars

(***************************************************************************)
(* The threads of an admin API: update_flag calls only.                    *)
(***************************************************************************)
NextWriters ==
    \/ \E t \in Threads, flag_name \in ThreadFlagNames,
          kw \in WriterUpdateArgs :
            CallUpdateFlag(t, flag_name, kw)
    \/ \E t \in Threads : WriteEnabled(t)
    \/ \E t \in Threads : WriteRolloutPercentage(t)
    \/ \E t \in Threads : WriteTargetUsers(t)

SpecWriters == Init /\ [][NextWriters]_vars

(***************************************************************************)
(* get_flag_manager and what the module's callers do with the manager it   *)
(* returns, run by the threads of a process in which no manager has been   *)
(* made yet.                                                               *)
(***************************************************************************)
\* How many get_flag_manager calls the threads make between them.
MaxModuleCalls == 4

\* The module is imported: _flag_manager is None and no
\* FeatureFlagManager exists; FEATURE_FLAGS_CONFIG is not set.
InitSingleton ==
    /\ user_hashes = HashTable(HashArgs)
    /\ ConstructFrom({}, NoFile, <<>>)

\* 359: get_flag_manager() is called, by a caller that goes on with `then`:
\* flags.update_flag(...) as the demos do, or the module-level is_enabled.
\* "updated": an update_flag call has returned before, on whichever manager.
CallGetFlagManager(t, then) ==
    /\ ~Running(t)
    /\ CallsMade < MaxModuleCalls
    /\ pc' = [pc EXCEPT ![t] = "362"]
    /\ frame' = [frame EXCEPT ![t] =
                    [op |-> "get_flag_manager", then |-> then,
                     updated |->
                        \E m \in DOMAIN flags :
                            flags[m]["aggressive_capture"].enabled,
                     calls |-> @.calls + 1]]
    /\ ReadOnly

\* 362: "if _flag_manager is None".
TestFlagManager(t) ==
    /\ pc[t] = "362"
    /\ Goto(t, IF _flag_manager = NoManager THEN "363" ELSE "365", <<>>)
    /\ ReadOnly

\* 363-364: os.getenv("FEATURE_FLAGS_CONFIG") and
\* FeatureFlagManager(config_path): a new manager, held by the thread; the
\* object is one that is no manager yet.
ConstructManager(t) ==
    /\ pc[t] = "363"
    /\ Managers \ DOMAIN flags # {}
    /\ LET m == CHOOSE m1 \in Managers \ DOMAIN flags :
                    \A m2 \in Managers \ DOMAIN flags : m1 <= m2
           loaded == init(config_file, environ)
       IN  /\ flags' = (m :> loaded.flags) @@ flags
           /\ audit_log' = (m :> <<>>) @@ audit_log
           /\ last' = (m :> Constructed) @@ last
           /\ decided' = (m :> {}) @@ decided
           /\ was_enabled' = (m :> {}) @@ was_enabled
           /\ Goto(t, "364", [made |-> m])
    /\ UNCHANGED <<utcnow, user_hashes, config_file, environ, recorded,
                   _flag_manager>>

\* 364: "_flag_manager = ...", the store to the global.
StoreFlagManager(t) ==
    /\ pc[t] = "364"
    /\ _flag_manager' = frame[t].made
    /\ Goto(t, "365", <<>>)
    /\ UNCHANGED <<flags, audit_log, utcnow, last, user_hashes, config_file,
                   environ, decided, was_enabled, recorded>>

\* 365: "return _flag_manager".
ReturnFlagManager(t) ==
    /\ pc[t] = "365"
    /\ pc' = [pc EXCEPT ![t] = "got"]
    /\ frame' = [frame EXCEPT ![t] =
                    [op |-> @.op, then |-> @.then, updated |-> @.updated,
                     calls |-> @.calls, manager |-> _flag_manager]]
    /\ ReadOnly

\* flags = get_flag_manager(); flags.update_flag(...).
ManagerUpdateFlag(t) ==
    /\ pc[t] = "got"
    /\ frame[t].then = "update_flag"
    /\ UpdateFlag(frame[t].manager, "aggressive_capture",
                  [enabled |-> TRUE, rollout_percentage |-> 100])
    /\ pc' = [pc EXCEPT ![t] = "returned"]
    /\ frame' = [frame EXCEPT ![t] =
                    [op |-> "update_flag", manager |-> @.manager,
                     calls |-> @.calls]]
    /\ UNCHANGED <<decided, was_enabled, recorded>>

\* 368-370: the module-level is_enabled,
\* "return get_flag_manager().is_enabled(flag_name, user_id, context)".
ModuleIsEnabled(t) ==
    /\ pc[t] = "got"
    /\ frame[t].then = "is_enabled"
    /\ IsEnabled(frame[t].manager, "aggressive_capture", "user_005")
    /\ pc' = [pc EXCEPT ![t] = "returned"]
    /\ frame' = [frame EXCEPT ![t] =
                    [op |-> "is_enabled", manager |-> @.manager,
                     updated |-> @.updated, calls |-> @.calls,
                     ret |-> last'[@.manager].ret]]
    /\ UNCHANGED <<decided, was_enabled, recorded>>

NextSingleton ==
    \/ \E t \in Threads, then \in {"update_flag", "is_enabled"} :
            CallGetFlagManager(t, then)
    \/ \E t \in Threads : TestFlagManager(t)
    \/ \E t \in Threads : ConstructManager(t)
    \/ \E t \in Threads : StoreFlagManager(t)
    \/ \E t \in Threads : ReturnFlagManager(t)
    \/ \E t \in Threads : ManagerUpdateFlag(t)
    \/ \E t \in Threads : ModuleIsEnabled(t)

SpecSingleton == InitSingleton /\ [][NextSingleton]_vars


(***************************************************************************)
(* The claims.  "The call" of a manager is its last call that returned;    *)
(* no flag has changed since, for update_flag is a call too.               *)
(***************************************************************************)
\* Manager m's last call was is_enabled on a flag of its registry.
Evaluated(m) ==
    /\ last[m].op = "is_enabled"
    /\ last[m].flag_name \in DOMAIN flags[m]

EvaluatedFlag(m) == flags[m][last[m].flag_name]

\* C1: while a flag's enabled field is false, is_enabled returns false for
\* every user_id, absent or present, target user or not, at any rollout
\* percentage.
C1_KillSwitchAbsolute ==
    \A m \in DOMAIN flags :
        (Evaluated(m) /\ ~EvaluatedFlag(m).enabled) => last[m].ret = FALSE

\* C1's case: a disabled flag at 100% is evaluated for one of its target
\* users.
C1_Witness ==
    \E m \in DOMAIN flags :
        /\ Evaluated(m)
        /\ ~EvaluatedFlag(m).enabled
        /\ EvaluatedFlag(m).rollout_percentage = 100
        /\ last[m].user_id = "vip_user_1"
        /\ In(last[m].user_id, EvaluatedFlag(m).target_users)
        /\ last[m].ret = FALSE

\* C2 as stated: on an enabled flag every user_id that is in target_users
\* gets true at any rollout percentage, and at 0% a user_id that is not in
\* target_users gets false.
C2_TargetingOverridesRollout ==
    \A m \in DOMAIN flags :
        (Evaluated(m) /\ EvaluatedFlag(m).enabled) =>
            /\ In(last[m].user_id, EvaluatedFlag(m).target_users)
                    => last[m].ret = TRUE
            /\ (/\ EvaluatedFlag(m).rollout_percentage = 0
                /\ ~In(last[m].user_id, EvaluatedFlag(m).target_users))
                    => last[m].ret = FALSE

\* C2 amended: on an enabled flag every non-empty user_id that is in
\* target_users gets true at any rollout percentage, and at 0% a user_id
\* that is not in target_users gets false.
C2_TargetingOverridesRolloutNonEmpty ==
    \A m \in DOMAIN flags :
        (Evaluated(m) /\ EvaluatedFlag(m).enabled) =>
            /\ (/\ In(last[m].user_id, EvaluatedFlag(m).target_users)
                /\ last[m].user_id # "")
                    => last[m].ret = TRUE
            /\ (/\ EvaluatedFlag(m).rollout_percentage = 0
                /\ ~In(last[m].user_id, EvaluatedFlag(m).target_users))
                    => last[m].ret = FALSE

\* C2's case: an enabled flag at 0% is evaluated for one of its target
\* users.
C2_Witness ==
    \E m \in DOMAIN flags :
        /\ Evaluated(m)
        /\ EvaluatedFlag(m).enabled
        /\ EvaluatedFlag(m).rollout_percentage = 0
        /\ last[m].user_id = "vip_user_1"
        /\ In(last[m].user_id, EvaluatedFlag(m).target_users)
        /\ last[m].ret = TRUE

\* C5: on an enabled flag, 0% gives false to every user that is not in
\* target_users and 100% gives true to every user, an absent user_id
\* included, and neither calls _hash_user or random.randint.
C5_BoundaryCorrectness ==
    \A m \in DOMAIN flags :
        (Evaluated(m) /\ EvaluatedFlag(m).enabled) =>
            /\ (/\ EvaluatedFlag(m).rollout_percentage = 0
                /\ ~In(last[m].user_id, EvaluatedFlag(m).target_users))
                    => (last[m].ret = FALSE
                        /\ ~last[m].hashed /\ ~last[m].drew)
            /\ EvaluatedFlag(m).rollout_percentage = 100
                    => (last[m].ret = TRUE
                        /\ ~last[m].hashed /\ ~last[m].drew)

\* C5's case: an enabled flag at 100% is evaluated with no user_id.
C5_Witness ==
    \E m \in DOMAIN flags :
        /\ Evaluated(m)
        /\ EvaluatedFlag(m).enabled
        /\ EvaluatedFlag(m).rollout_percentage = 100
        /\ last[m].user_id = None
        /\ last[m].ret = TRUE

\* C6: on an enabled flag strictly between 0% and 100%, an identified user
\* (a user_id that is there and not empty) that is not in target_users gets
\* exactly bucket(flag_name, user_id) < rollout_percentage, where the bucket
\* is in 0..99 and the same for every manager.
C6_PercentageRule ==
    /\ \A k \in DOMAIN user_hashes :
            /\ user_hashes[k] \in 0..99
            /\ \A m \in Managers :
                    user_hashes[<<m, k[2], k[3]>>] = user_hashes[k]
    /\ \A m \in DOMAIN flags :
        (/\ Evaluated(m)
         /\ EvaluatedFlag(m).enabled
         /\ EvaluatedFlag(m).rollout_percentage > 0
         /\ EvaluatedFlag(m).rollout_percentage < 100
         /\ Truthy(last[m].user_id)
         /\ ~In(last[m].user_id, EvaluatedFlag(m).target_users))
            => last[m].ret =
                (user_hashes[<<m, last[m].flag_name, last[m].user_id>>]
                    < EvaluatedFlag(m).rollout_percentage)

\* C6's case: a flag at 65% is evaluated for the user whose bucket is 65.
C6_Witness ==
    \E m \in DOMAIN flags :
        /\ Evaluated(m)
        /\ EvaluatedFlag(m).enabled
        /\ EvaluatedFlag(m).rollout_percentage = 65
        /\ last[m].user_id = "vip_user_1"
        /\ ~In(last[m].user_id, EvaluatedFlag(m).target_users)
        /\ user_hashes[<<m, last[m].flag_name, last[m].user_id>>] = 65
        /\ last[m].ret = FALSE

\* C8: after n recorded evaluations made one after the other,
\* export_audit_log returns the min(n, AuditCap) entries recorded last,
\* oldest first.  The n-th entry recorded is the one stamped n.
C8_AuditCapFifo ==
    \A m \in DOMAIN flags :
        last[m].op = "export_audit_log" =>
            LET n == utcnow
                k == Min(n, AuditCap)
            IN  /\ Len(last[m].ret) = k
                /\ \A i \in 1..k : last[m].ret[i].timestamp = n - k + i

\* C8's case: the export after the log has overflowed twice.
C8_Witness ==
    \E m \in DOMAIN flags :
        /\ last[m].op = "export_audit_log"
        /\ utcnow = AuditCap + 2
        /\ Len(last[m].ret) = AuditCap

\* C9 as stated: every is_enabled call with a user_id and a known flag name
\* appends one audit entry that carries the value returned, whichever rule
\* decided: the newest entry of the log is the call's.
C9_EveryIdentifiedEvaluationAudited ==
    \A m \in DOMAIN flags :
        (Evaluated(m) /\ Truthy(last[m].user_id)) =>
            /\ Len(audit_log[m]) > 0
            /\ LET e == audit_log[m][Len(audit_log[m])]
               IN  /\ e.timestamp = utcnow
                   /\ e.flag = last[m].flag_name
                   /\ e.user_id = last[m].user_id
                   /\ e.result = last[m].ret


\* C3: on a flag strictly between 0% and 100%, for a user with a non-empty
\* user_id that is not in target_users, an is_enabled call returns what every
\* earlier call of the same manager returned since the flag was last
\* updated, and what the calls of every other manager that holds an equal
\* definition of the flag returned.
C3_Deterministic ==
    \A m \in DOMAIN flags :
        (/\ Evaluated(m)
         /\ EvaluatedFlag(m).enabled
         /\ EvaluatedFlag(m).rollout_percentage > 0
         /\ EvaluatedFlag(m).rollout_percentage < 100
         /\ Truthy(last[m].user_id)
         /\ ~In(last[m].user_id, EvaluatedFlag(m).target_users))
            => \A m2 \in DOMAIN flags :
                    flags[m2][last[m].flag_name] = EvaluatedFlag(m)
                        => \A e \in decided[m2] :
                            <<e[1], e[2]>> =
                                    <<last[m].flag_name, last[m].user_id>>
                                => e[3] = last[m].ret

\* C3's case: two managers hold the flag at 65%, their audit logs differ, and
\* the second has just evaluated a user the first evaluated before.
C3_Witness ==
    /\ DOMAIN flags = {1, 2}
    /\ Evaluated(2)
    /\ EvaluatedFlag(2).enabled
    /\ EvaluatedFlag(2).rollout_percentage = 65
    /\ flags[1][last[2].flag_name] = EvaluatedFlag(2)
    /\ last[2].user_id = "user_005"
    /\ last[2].hashed
    /\ <<last[2].flag_name, "user_005", last[2].ret>> \in decided[1]
    /\ Len(audit_log[1]) > Len(audit_log[2])

\* C4: on an enabled flag whose target_users stay as they are and whose
\* rollout_percentage is only raised by the update_flag calls, a user with
\* a non-empty user_id that once got true from is_enabled gets true from
\* every later is_enabled call.
C4_MonotoneUnderIncrease ==
    \A m \in DOMAIN flags :
        (/\ Evaluated(m)
         /\ \E e \in was_enabled[m] :
                <<e[1], e[2]>> = <<last[m].flag_name, last[m].user_id>>)
            => last[m].ret = TRUE

\* C4's case: the user of bucket 29 got true at 30% and is evaluated again
\* at 65%.
C4_Witness ==
    \E m \in DOMAIN flags :
        /\ Evaluated(m)
        /\ last[m].user_id = "user_005"
        /\ <<last[m].flag_name, "user_005", 30>> \in was_enabled[m]
        /\ EvaluatedFlag(m).rollout_percentage = 65
        /\ last[m].hashed
        /\ last[m].ret = TRUE

\* C7 as stated: an is_enabled call that ran while one update_flag call of
\* several fields did, and no other update of the flag, returns what the flag as it was before the update
\* gives, or what the flag as it is after the whole update gives.
C7_NoTornReads ==
    \A t \in Threads :
        (/\ pc[t] = "returned"
         /\ frame[t].op = "is_enabled"
         /\ Len(frame[t].updates) = 1
         /\ frame[t].updates[1].alone
         /\ Cardinality(DOMAIN frame[t].updates[1].kw) > 1)
            => LET update == frame[t].updates[1]
                   draw == IF "draw" \in DOMAIN frame[t] THEN frame[t].draw
                           ELSE 0
                   decision(flag) ==
                        is_enabled(
                            [flags[TheManager] EXCEPT
                                ![frame[t].flag_name] = flag],
                            user_hashes, TheManager, frame[t].flag_name,
                            frame[t].user_id, draw).ret
               IN  \/ frame[t].ret = decision(update.before)
                   \/ frame[t].ret = decision(update.after)

\* C10 as stated: once the is_enabled calls of the threads have returned,
\* the audit log holds each entry they appended once, in the order of the
\* appends, but for the oldest, which the trim has dropped: no entry is
\* missing while an older one is there, and none is there twice.
C10_AuditAppendsAtomic ==
    (\A t \in Threads : ~Running(t)) =>
        LET log == audit_log[TheManager]
            held(ts) == \E i \in 1..Len(log) : log[i].timestamp = ts
        IN  /\ \A i, j \in 1..Len(log) :
                    log[i].timestamp = log[j].timestamp => i = j
            /\ \A i, j \in 1..Len(recorded) :
                    (i < j /\ held(recorded[i])) => held(recorded[j])

\* C11 as stated: when two update_flag calls of a flag have run while each
\* other did, and no third, the flag is what the two calls give when one is
\* run after the other, in one of the two orders, from the flag as it was
\* when the first began.
C11_UpdatesMutuallyExclusive ==
    \A t, u \in Threads :
        (/\ pc[t] = "returned" /\ pc[u] = "returned"
         /\ frame[t].op = "update_flag" /\ frame[u].op = "update_flag"
         /\ frame[t].flag_name = frame[u].flag_name
         /\ "id" \in DOMAIN frame[t] /\ "id" \in DOMAIN frame[u]
         /\ frame[t].id < frame[u].id
         /\ frame[t].during = {frame[u].id}
         /\ frame[u].during = {frame[t].id})
            => LET f == frame[t].flag_name
                   began == [flags[TheManager] EXCEPT ![f] = frame[t].before]
                   one_then_other(first, second) ==
                        update_flag(update_flag(began, f, first), f,
                                    second)[f]
               IN  \/ flags[TheManager][f] =
                            one_then_other(frame[t].kw, frame[u].kw)
                   \/ flags[TheManager][f] =
                            one_then_other(frame[u].kw, frame[t].kw)

\* C12: for a flag name that is not in the registry, is_enabled returns
\* false, get_variant returns the caller's default and update_flag returns;
\* none raises, none creates or changes a flag, none adds to the audit log.
C12_UnknownFlagChangesNothing ==
    [][\A self \in DOMAIN flags, flag_name \in FlagNames :
        flag_name \notin DOMAIN flags[self] =>
            LET NothingChanged ==
                    /\ flags' = flags
                    /\ audit_log' = audit_log
                    /\ "raised" \notin DOMAIN last'[self]
            IN  /\ \A user_id \in LoadUserIds :
                        (last'[self].op = "is_enabled"
                            /\ IsEnabled(self, flag_name, user_id)) =>
                            (NothingChanged /\ last'[self].ret = FALSE)
                /\ \A user_id \in LoadUserIds :
                        (last'[self].op = "get_variant"
                            /\ GetVariant(self, flag_name, user_id,
                                          "control")) =>
                            (NothingChanged /\ last'[self].ret = "control")
                /\ \A call \in LoadUpdateCalls :
                        (call[1] = flag_name
                            /\ last'[self].op = "update_flag"
                            /\ UpdateFlag(self, call[1], call[2])) =>
                            NothingChanged]_vars

\* C12's case: update_flag has returned for a name that is not in the
\* registry of a manager that has recorded an evaluation.
C12_Witness ==
    \E m \in DOMAIN flags :
        /\ last[m].op = "update_flag"
        /\ last[m].flag_name = "nonexistent_flag"
        /\ "nonexistent_flag" \notin DOMAIN flags[m]
        /\ Len(audit_log[m]) > 0

\* C13: update_flag on a known flag with a rollout_percentage p stores p if
\* p is in 0..100, 0 if p is negative and 100 if p is above 100, and
\* returns.
C13_UpdateClamps ==
    [][\A self \in DOMAIN flags, call \in UpdateCalls :
        (/\ call[1] \in DOMAIN flags[self]
         /\ "rollout_percentage" \in DOMAIN call[2]
         /\ last'[self].op = "update_flag"
         /\ UpdateFlag(self, call[1], call[2]))
            => LET p == call[2].rollout_percentage
               IN  /\ flags'[self][call[1]].rollout_percentage =
                        (IF p < 0 THEN 0 ELSE IF p > 100 THEN 100 ELSE p)
                   /\ "raised" \notin DOMAIN last'[self]]_vars

\* C13's case: aggressive_capture is at 100% after an update_flag; the
\* default is 0% and the only argument of the model that gives 100 is 150.
C13_Witness ==
    \E m \in DOMAIN flags :
        /\ last[m].op = "update_flag"
        /\ last[m].flag_name = "aggressive_capture"
        /\ flags[m]["aggressive_capture"].rollout_percentage = 100

\* A manager that has been constructed and not called yet.
Fresh(m) == m \in DOMAIN flags /\ last[m].op = "__init__"

\* The flags when _load_from_env starts: the defaults, with the file loaded
\* over them if there is one.
BeforeEnv ==
    IF config_file.kind = "none" THEN load_defaults
    ELSE load_from_file(load_defaults, config_file).flags

\* C14 as stated: in every state, whatever file and environment the manager
\* was constructed with and whatever update_flag calls it has had, the
\* rollout_percentage of every flag is in 0..100.
C14_RolloutInRange ==
    \A m \in DOMAIN flags :
        \A n \in DOMAIN flags[m] :
            /\ flags[m][n].rollout_percentage >= 0
            /\ flags[m][n].rollout_percentage <= 100

\* C15 as stated: when _load_from_file fails (the file cannot be read or
\* parsed, or an entry cannot be applied) the constructor raises nothing
\* for it and the flags are what they are without the file: nothing of the
\* document is applied.
C15_FailedLoadKeepsDefaults ==
    \A m \in DOMAIN last :
        (/\ last[m].op = "__init__"
         /\ config_file.kind # "none"
         /\ load_from_file(load_defaults, config_file).raised # None
         /\ init(NoFile, environ).raised = None)
            => /\ m \in DOMAIN flags
               /\ flags[m] = init(NoFile, environ).flags

\* Variable i of the environment is the override of flag n: its key is FF_
\* and the name of the flag in any case, and no other variable is.
Overrides(i, n) ==
    LET Names(j) ==
            /\ startswith(environ[j][1], EnvPrefix)
            /\ lower(SubSeq(environ[j][1], 4, Len(environ[j][1])))
                    = encode(n)
    IN  /\ Names(i)
        /\ \A j \in 1..Len(environ) : Names(j) => j = i

\* The value is decimal digits, with whitespace around them or not.
DecimalDigits(value) ==
    /\ Len(strip(value)) > 0
    /\ \A k \in 1..Len(strip(value)) :
            strip(value)[k] >= 48 /\ strip(value)[k] <= 57

\* The number the digits denote.
RECURSIVE Denoted(_)
Denoted(digits) ==
    IF Len(digits) = 0 THEN 0
    ELSE (digits[Len(digits)] - 48)
            + 10 * Denoted(SubSeq(digits, 1, Len(digits) - 1))

\* C16 as stated: after the construction, a known flag whose FF_ variable is
\* an integer string that denotes a number in 0..100 is enabled, with that
\* number as its rollout_percentage.
C16_EnvPercentage ==
    \A m \in DOMAIN flags :
        Fresh(m) =>
            \A i \in 1..Len(environ), n \in DOMAIN flags[m] :
                (/\ Overrides(i, n)
                 /\ DecimalDigits(environ[i][2])
                 /\ Denoted(strip(environ[i][2])) <= 100)
                    => /\ flags[m][n].enabled = TRUE
                       /\ flags[m][n].rollout_percentage =
                                Denoted(strip(environ[i][2]))

\* C16 amended: the same for an integer string that is not "0" or "1",
\* which are read as false and true.
C16_EnvPercentageButZeroAndOne ==
    \A m \in DOMAIN flags :
        Fresh(m) =>
            \A i \in 1..Len(environ), n \in DOMAIN flags[m] :
                (/\ Overrides(i, n)
                 /\ DecimalDigits(environ[i][2])
                 /\ Denoted(strip(environ[i][2])) <= 100
                 /\ strip(environ[i][2]) \notin {<<48>>, <<49>>})
                    => /\ flags[m][n].enabled = TRUE
                       /\ flags[m][n].rollout_percentage =
                                Denoted(strip(environ[i][2]))

\* C16's case: FF_AGGRESSIVE_CAPTURE is "07" and the flag, disabled at 0% by
\* default, is enabled at 7%.
C16_Witness ==
    \E m \in DOMAIN flags :
        /\ Fresh(m)
        /\ \E i \in 1..Len(environ) :
                /\ Overrides(i, "aggressive_capture")
                /\ environ[i][2] = <<48, 55>>
        /\ flags[m]["aggressive_capture"].enabled
        /\ flags[m]["aggressive_capture"].rollout_percentage = 7

\* The value with the whitespace around it removed, in lower case, is one
\* of the words.
IsWord(value, words) == lower(strip(value)) \in words

\* true, 1, on and false, 0, off as code points.
TrueWords  == {<<116, 114, 117, 101>>, <<49>>, <<111, 110>>}
FalseWords == {<<102, 97, 108, 115, 101>>, <<48>>, <<111, 102, 102>>}

\* C17: after the construction, a known flag whose FF_ variable is true, 1
\* or on in any case and with whitespace around it or not is enabled at
\* 100%, one whose variable is false, 0 or off is disabled at 0%, the other
\* fields of the flag are what they were before the environment was read,
\* and so is every flag that no variable names.
C17_EnvBoolean ==
    \A m \in DOMAIN flags :
        Fresh(m) =>
            \A n \in DOMAIN BeforeEnv :
                /\ \A i \in 1..Len(environ) :
                        /\ (Overrides(i, n)
                                /\ IsWord(environ[i][2], TrueWords))
                            => flags[m][n] =
                                [BeforeEnv[n] EXCEPT
                                    !.enabled = TRUE,
                                    !.rollout_percentage = 100]
                        /\ (Overrides(i, n)
                                /\ IsWord(environ[i][2], FalseWords))
                            => flags[m][n] =
                                [BeforeEnv[n] EXCEPT
                                    !.enabled = FALSE,
                                    !.rollout_percentage = 0]
                /\ (\A i \in 1..Len(environ) : ~Overrides(i, n))
                        => flags[m][n] = BeforeEnv[n]

\* C17's case: the file has set aggressive_capture to 30%, and
\* FF_AGGRESSIVE_CAPTURE=" On " has made it 100%.
C17_Witness ==
    \E m \in DOMAIN flags :
        /\ Fresh(m)
        /\ BeforeEnv["aggressive_capture"].rollout_percentage = 30
        /\ \E i \in 1..Len(environ) :
                /\ Overrides(i, "aggressive_capture")
                /\ environ[i][2] = <<32, 79, 110, 32>>
        /\ flags[m]["aggressive_capture"].enabled
        /\ flags[m]["aggressive_capture"].rollout_percentage = 100

\* The value has one of the shapes that _load_from_env acts on.
Recognized(value) ==
    \/ IsWord(value, TrueWords)
    \/ IsWord(value, FalseWords)
    \/ DecimalDigits(value) /\ Denoted(strip(value)) <= 100

\* What a recognized value sets enabled and rollout_percentage to.
Override(value) ==
    IF IsWord(value, TrueWords) THEN <<TRUE, 100>>
    ELSE IF IsWord(value, FalseWords) THEN <<FALSE, 0>>
    ELSE <<TRUE, Denoted(strip(value))>>

\* Variable i is an FF_ variable with the name of flag n.
Names(i, n) ==
    /\ startswith(environ[i][1], EnvPrefix)
    /\ lower(SubSeq(environ[i][1], 4, Len(environ[i][1]))) = encode(n)

\* C18 as stated: the constructor returns whatever the FF_ variables are;
\* after it there are the flags there were before the environment was read
\* and no other, a flag whose FF_ variables all have values of no recognized
\* shape is unchanged, and a flag whose variable is recognized has the
\* override, whatever the other variables of the environment are.
C18_MalformedEnvIgnored ==
    \A m \in DOMAIN last :
        /\ m \in DOMAIN flags
        /\ Fresh(m) =>
            /\ DOMAIN flags[m] = DOMAIN BeforeEnv
            /\ \A n \in DOMAIN BeforeEnv :
                    /\ (\A i \in 1..Len(environ) :
                            Names(i, n) => ~Recognized(environ[i][2]))
                        => flags[m][n] = BeforeEnv[n]
                    /\ \A i \in 1..Len(environ) :
                            (Overrides(i, n) /\ Recognized(environ[i][2]))
                                => flags[m][n] =
                                    [BeforeEnv[n] EXCEPT
                                        !.enabled =
                                            Override(environ[i][2])[1],
                                        !.rollout_percentage =
                                            Override(environ[i][2])[2]]

\* C19: after the construction a flag with a recognized FF_ variable has
\* the enabled and rollout_percentage of the variable, whatever the
\* defaults and the file say and also when the file has created the flag;
\* and a manager constructed with FF_SHOW_RISKS_UPFRONT false, 0 or off
\* returns false from is_enabled("show_risks_upfront", u) for every u, a
\* target user of the file's included, as long as the flag is not updated.
C19_EnvironmentLast ==
    \A m \in DOMAIN flags :
        /\ Fresh(m) =>
            \A i \in 1..Len(environ), n \in DOMAIN flags[m] :
                (Overrides(i, n) /\ Recognized(environ[i][2]))
                    => /\ flags[m][n].enabled = Override(environ[i][2])[1]
                       /\ flags[m][n].rollout_percentage
                                = Override(environ[i][2])[2]
        /\ (/\ Evaluated(m)
            /\ last[m].flag_name = "show_risks_upfront"
            /\ \E i \in 1..Len(environ) :
                    /\ Overrides(i, "show_risks_upfront")
                    /\ IsWord(environ[i][2], FalseWords))
                => last[m].ret = FALSE

\* C19's case: the file makes vip_user_1 a target user of
\* show_risks_upfront, enabled at 100% by default, the environment has
\* FF_SHOW_RISKS_UPFRONT=off, and is_enabled has returned false for
\* vip_user_1; the same file has created nonexistent_flag at 30% and
\* FF_NONEXISTENT_FLAG=65 has made it 65%.
C19_Witness ==
    \E m \in DOMAIN flags :
        /\ Evaluated(m)
        /\ last[m].flag_name = "show_risks_upfront"
        /\ last[m].user_id = "vip_user_1"
        /\ last[m].ret = FALSE
        /\ load_defaults["show_risks_upfront"].enabled
        /\ load_defaults["show_risks_upfront"].rollout_percentage = 100
        /\ In("vip_user_1", BeforeEnv["show_risks_upfront"].target_users)
        /\ \E i \in 1..Len(environ) :
                /\ Overrides(i, "show_risks_upfront")
                /\ IsWord(environ[i][2], FalseWords)
        /\ "nonexistent_flag" \in DOMAIN BeforeEnv
        /\ BeforeEnv["nonexistent_flag"].rollout_percentage = 30
        /\ flags[m]["nonexistent_flag"].rollout_percentage = 65

\* The document at config_path is an object whose entries can all be
\* applied: each is an object, and one for a new flag has fields of
\* FlagConfig only.
Applicable ==
    /\ config_file.kind = "object"
    /\ \A j \in 1..Len(config_file.entries) :
            /\ config_file.entries[j].object
            /\ config_file.entries[j].name \in DOMAIN load_defaults
                \/ DOMAIN config_file.entries[j].data
                        \subseteq FlagConfigKeywords

\* The names the document has an entry for, and the entry of a name.
Mentioned == {config_file.entries[j].name : j \in 1..Len(config_file.entries)}

DataOf(n) ==
    LET j == CHOOSE j \in 1..Len(config_file.entries) :
                config_file.entries[j].name = n
    IN  config_file.entries[j].data

\* What FlagConfig gives a field that is not supplied.
FieldDefaults ==
    [enabled |-> FALSE, rollout_percentage |-> 0, target_users |-> <<>>,
     target_segments |-> <<>>, variant |-> None, description |-> ""]

\* C20: after a construction with a document whose entries can all be
\* applied, a default flag with an entry has the entry's value in every
\* field of the entry and its default in every other field, a name with an
\* entry and no default is a flag with the entry's fields and FlagConfig's
\* defaults for the rest, and the flags without an entry are the defaults;
\* said of the flags that no FF_ variable names.
C20_FileMergesPerField ==
    \A m \in DOMAIN flags :
        (Fresh(m) /\ Applicable) =>
            /\ DOMAIN flags[m] = DOMAIN load_defaults \cup Mentioned
            /\ \A n \in DOMAIN flags[m] :
                    (\A i \in 1..Len(environ) : ~Names(i, n)) =>
                        IF n \notin Mentioned
                        THEN flags[m][n] = load_defaults[n]
                        ELSE /\ \A k \in DOMAIN DataOf(n) :
                                    flags[m][n][k] = DataOf(n)[k]
                             /\ \A k \in DOMAIN flags[m][n]
                                            \ DOMAIN DataOf(n) :
                                    flags[m][n][k] =
                                        IF n \in DOMAIN load_defaults
                                        THEN load_defaults[n][k]
                                        ELSE IF k = "name" THEN n
                                        ELSE FieldDefaults[k]
                             /\ DOMAIN FieldDefaults \cup {"name"}
                                    \subseteq DOMAIN flags[m][n]

\* C20's case: the document gives show_risks_upfront a target user and
\* defines nonexistent_flag; show_risks_upfront is still enabled at 100%,
\* nonexistent_flag has the variant of the document and no target users,
\* and aggressive_capture is as by default.
C20_Witness ==
    \E m \in DOMAIN flags :
        /\ Fresh(m)
        /\ Applicable
        /\ Mentioned = {"show_risks_upfront", "nonexistent_flag"}
        /\ \A i \in 1..Len(environ), n \in DOMAIN flags[m] : ~Names(i, n)
        /\ flags[m]["show_risks_upfront"].target_users = <<"vip_user_1">>
        /\ flags[m]["show_risks_upfront"].enabled
        /\ flags[m]["show_risks_upfront"].rollout_percentage = 100
        /\ flags[m]["nonexistent_flag"].variant = "casual"
        /\ flags[m]["nonexistent_flag"].target_users = <<>>
        /\ flags[m]["aggressive_capture"] = load_defaults["aggressive_capture"]

\* C21: get_variant(flag_name, user_id, default) returns the flag's variant
\* if the is_enabled call it makes returns true and the variant is a string
\* that is not empty, and default in every other case: a name that is not
\* in the registry, a flag that is not enabled for the user, a variant that
\* is None or "".  It raises nothing.  (For an absent user at a percentage
\* strictly between 0 and 100 the is_enabled call draws at random: the
\* return value is the one that goes with one of the draws.)
C21_VariantWhenEnabled ==
    [][\A self \in DOMAIN flags :
        last'[self].op = "get_variant" =>
            /\ "raised" \notin DOMAIN last'[self]
            /\ \E draw \in RandomDraws :
                    LET flag_name == last'[self].flag_name
                        enabled == is_enabled(flags[self], user_hashes, self,
                                              flag_name,
                                              last'[self].user_id, draw).ret
                    IN  last'[self].ret =
                            IF /\ enabled
                               /\ flags[self][flag_name].variant # None
                               /\ flags[self][flag_name].variant # ""
                            THEN flags[self][flag_name].variant
                            ELSE "control"]_vars

\* C21's case: get_variant has returned the variant "casual" of a flag
\* that is enabled for the user.
C21_Witness ==
    \E m \in DOMAIN flags :
        /\ last[m].op = "get_variant"
        /\ last[m].flag_name \in DOMAIN flags[m]
        /\ last[m].user_id = "vip_user_1"
        /\ flags[m][last[m].flag_name].variant = "casual"
        /\ last[m].ret = "casual"

\* C22: update_flag on a known flag leaves every field of the flag that is
\* not among the arguments supplied as it was (enabled, rollout_percentage
\* and target_users when they are not supplied, and name, target_segments,
\* variant and description always), leaves every other flag as it was,
\* adds and removes no flag, and leaves the audit log as it was.
C22_UpdateIsPartial ==
    [][\A self \in DOMAIN flags, call \in UpdateCalls :
        (/\ call[1] \in DOMAIN flags[self]
         /\ last'[self].op = "update_flag"
         /\ UpdateFlag(self, call[1], call[2]))
            => /\ DOMAIN flags' = DOMAIN flags
               /\ \A m \in DOMAIN flags :
                    /\ DOMAIN flags'[m] = DOMAIN flags[m]
                    /\ \A n \in DOMAIN flags[m] :
                        /\ DOMAIN flags'[m][n] = DOMAIN flags[m][n]
                        /\ \A k \in DOMAIN flags[m][n] :
                                (/\ m = self
                                 /\ n = call[1]
                                 /\ k \in DOMAIN call[2]
                                 /\ k \in {"enabled", "rollout_percentage",
                                            "target_users"})
                                \/ flags'[m][n][k] = flags[m][n][k]
               /\ audit_log' = audit_log]_vars

\* C22's case: aggressive_capture is enabled at 30% with target users after
\* an update_flag, which no single call of the model supplies, and the
\* manager has recorded an evaluation.
C22_Witness ==
    \E m \in DOMAIN flags :
        /\ last[m].op = "update_flag"
        /\ last[m].flag_name = "aggressive_capture"
        /\ flags[m]["aggressive_capture"].enabled
        /\ flags[m]["aggressive_capture"].rollout_percentage = 30
        /\ flags[m]["aggressive_capture"].target_users = <<"vip_user_1", "">>
        /\ Len(audit_log[m]) > 0

\* C23: an is_enabled or get_variant call without a user_id, or with a flag
\* name that is not in the registry, leaves the audit log as it was and
\* reads no clock for an entry, whatever the flags are.
C23_AnonymousNotRecorded ==
    [][\A self \in DOMAIN flags :
        (/\ last'[self].op \in {"is_enabled", "get_variant"}
         /\ \/ last'[self].user_id = None
            \/ last'[self].flag_name \notin DOMAIN flags[self])
            => /\ audit_log' = audit_log
               /\ utcnow' = utcnow]_vars

\* C23's case: get_variant without a user_id has returned the variant of a
\* flag that is enabled below 100%, so the call went as far as the draw,
\* and the audit log is empty.
C23_Witness ==
    \E m \in DOMAIN flags :
        /\ last[m].op = "get_variant"
        /\ last[m].user_id = None
        /\ last[m].flag_name \in DOMAIN flags[m]
        /\ flags[m][last[m].flag_name].rollout_percentage = 30
        /\ last[m].ret = "casual"
        /\ last[m].drew
        /\ audit_log[m] = <<>>

\* The call of thread t that has returned is an export_audit_log.
Exported(t) == pc[t] = "returned" /\ frame[t].op = "export_audit_log"

\* C24: the list that an export_audit_log call has returned has the same
\* entries in the same order for as long as the caller holds it, whatever
\* is_enabled records and whatever _log_evaluation drops in the meantime.
C24_ExportIsSnapshot ==
    [][\A t \in Threads :
        (/\ Exported(t)
         /\ pc'[t] = "returned")
            => entries_of(frame'[t].ret, audit_log'[TheManager])
                    = entries_of(frame[t].ret, audit_log[TheManager])]_vars

\* C24's case: the list returned holds the first entry alone; two more
\* have been recorded since and the first has been dropped from the log.
C24_Witness ==
    \E t \in Threads :
        /\ Exported(t)
        /\ Len(entries_of(frame[t].ret, audit_log[TheManager])) = 1
        /\ entries_of(frame[t].ret, audit_log[TheManager])[1].timestamp = 1
        /\ Len(audit_log[TheManager]) = AuditCap
        /\ audit_log[TheManager][1].timestamp = 2
        /\ \A u \in Threads : ~Running(u)

\* C28 as stated: no export_audit_log call returns more entries than the
\* capacity of the log, also when is_enabled calls are recording while it
\* runs.
C28_ExportWithinCapacity ==
    \A t \in Threads :
        Exported(t) =>
            Len(entries_of(frame[t].ret, audit_log[TheManager])) <= AuditCap

\* C25 as stated: in every state, whatever file the manager was constructed
\* with and whatever update_flag calls it has had, no user id is twice in
\* the target_users of a flag.
C25_NoDuplicateTargets ==
    \A m \in DOMAIN flags :
        \A n \in DOMAIN flags[m] :
            \A i, j \in 1..Len(flags[m][n].target_users) :
                flags[m][n].target_users[i] = flags[m][n].target_users[j]
                    => i = j

\* C26 as stated: in every state, whatever file and environment the
\* manager was constructed with and whatever update_flag calls it has had,
\* the definition under a key of the registry has the key as its name.
C26_NameIsKey ==
    \A m \in DOMAIN flags :
        \A n \in DOMAIN flags[m] : flags[m][n].name = n

\* C27: is_enabled, get_variant, get_all_flags and export_audit_log leave
\* every flag as it is and add and remove none, whatever they return and
\* however many have been made; a step after which a flag is not what it
\* was is an update_flag call.  (The file and the environment are loaded
\* by the constructor, before the first state.)
C27_OnlyMutationsChangeFlags ==
    [][/\ \A self \in DOMAIN flags :
            last'[self].op \in {"is_enabled", "get_variant", "get_all_flags",
                                "export_audit_log"}
                => /\ self \in DOMAIN flags'
                   /\ flags'[self] = flags[self]
       /\ flags' # flags
            => \E self \in DOMAIN flags, call \in LoadUpdateCalls :
                    /\ last'[self].op = "update_flag"
                    /\ UpdateFlag(self, call[1], call[2])]_vars

\* C27's case: get_all_flags has returned the flags as the constructor
\* left them, after an evaluation that was recorded.
C27_Witness ==
    \E m \in DOMAIN flags :
        /\ last[m].op = "get_all_flags"
        /\ Len(audit_log[m]) = LoadRecords
        /\ audit_log[m][1].result = TRUE
        /\ last[m].ret = init(config_file, environ).flags
        /\ flags[m] = last[m].ret

\* C29: every audit record with reason targeted_user has result true, and
\* every audit record with reason rollout_N% has the result that the
\* user's bucket gives against that N, also when update_flag calls run
\* while the evaluation does.
C29_AuditSelfConsistent ==
    \A i \in 1..Len(audit_log[TheManager]) :
        LET entry == audit_log[TheManager][i]
            bucket == user_hashes[<<TheManager, entry.flag, entry.user_id>>]
        IN  /\ entry.reason = "targeted_user" => entry.result = TRUE
            /\ \A N \in 0..100 :
                    entry.reason = rollout_reason(N)
                        => entry.result = (bucket < N)

\* C30: every get_flag_manager call returns the same manager, first calls
\* made by several threads at once included, and a module-level is_enabled
\* called after an update_flag made through a caller's manager has
\* returned sees that update.
C30_ManagerIsUnique ==
    /\ \A t, u \in Threads :
            "manager" \in DOMAIN frame[t] /\ "manager" \in DOMAIN frame[u]
                => frame[t].manager = frame[u].manager
    /\ \A t \in Threads :
            pc[t] = "returned" /\ frame[t].op = "is_enabled"
                /\ frame[t].updated
                => frame[t].ret = TRUE

=============================================================================
